---- MODULE Spec2Model ----
(***************************************************************************)
(* Model of the AIDA response validator (src/python/aida/validator.py).    *)
(*                                                                         *)
(* Values that the code parses or rewrites (provenances, identifiers,      *)
(* confidence values) are sequences of one-character strings, so that      *)
(* regular-expression matching, splitting and formatting are computed on   *)
(* the characters.  Enumerated values (modalities, event codes, schema and *)
(* attribute names, return values) are TLA+ strings.  A rule's return      *)
(* value is "True" or "False", or "Raised" when the Python code ends with  *)
(* an exception instead of returning.                                      *)
(***************************************************************************)
EXTENDS Integers, Sequences, FiniteSets, TLC

VARIABLES
    method,   \* name of the validation rule applied last ("none" at start)
    args,     \* the arguments of that call (record before the call, context)
    entry,    \* the record after the call
    ret,      \* "True" | "False" | "Raised" | "none"
    events,   \* codes passed to record_event during the call, in order
    event_args, \* the arguments that follow the code of an INVALID_DATE_RANGE
                \* event logged during the call (<<>> when there is none)
    manager,  \* the ScoresManager: its task, arguments, metrics and scores,
              \* and where its constructor or print_scores stands
    scorers,  \* the scorer instances in the order of their construction
    process   \* a run of validate_responses.py: the paths that exist, where
              \* the script stands, its logger and its exit status

vars == <<method, args, entry, ret, events, event_args, manager, scorers,
          process>>

(***************************************************************************)
(* Bounds of the model.                                                    *)
(***************************************************************************)
MaxCoord == 12      \* largest coordinate numeral drawn
MaxSegments == 3    \* largest number of ';'-joined provenances drawn
MaxEntries == 2     \* largest number of entries of a cluster drawn
MaxYear == 4        \* years drawn are -1..MaxYear
MaxRows == 3        \* largest number of raw rows handed to aggregate_scores
MaxQueries == 3     \* largest number of queries scored
MaxPrints == 2      \* largest number of calls of ScoresManager.print_scores

(***************************************************************************)
(* Characters and strings.                                                 *)
(***************************************************************************)
Digits == <<"0", "1", "2", "3", "4", "5", "6", "7", "8", "9">>

Letters ==
    {"a","b","c","d","e","f","g","h","i","j","k","l","m","n","o","p","q","r",
     "s","t","u","v","w","x","y","z","A","B","C","D","E","F","G","H","I","J",
     "K","L","M","N","O","P","Q","R","S","T","U","V","W","X","Y","Z"}

IsDigit(c) == \E d \in 1..10 : Digits[d] = c

DigitVal(c) == (CHOOSE d \in 1..10 : Digits[d] = c) - 1

\* regular-expression class \w
IsWordChar(c) == c \in Letters \/ IsDigit(c) \/ c = "_"

\* regular-expression class \S
IsNonSpace(c) == c \notin {" ", "\t"}

AllWord(s) == \A i \in 1..Len(s) : IsWordChar(s[i])

AllNonSpace(s) == \A i \in 1..Len(s) : IsNonSpace(s[i])

AllDigits(s) == \A i \in 1..Len(s) : IsDigit(s[i])

Positions(s, c) == {i \in 1..Len(s) : s[i] = c}

\* F applied to the value of x, which is computed once
Let(x, F(_)) == CHOOSE r \in {F(v) : v \in {x}} : TRUE

Range(s) == {s[i] : i \in DOMAIN s}

Max(S) == CHOOSE x \in S : \A y \in S : y <= x

Min(S) == CHOOSE x \in S : \A y \in S : x <= y

\* str.split(c)
RECURSIVE Split(_, _)
Split(s, c) ==
    IF Positions(s, c) = {} THEN <<s>>
    ELSE LET p == Min(Positions(s, c))
         IN  <<SubSeq(s, 1, p - 1)>> \o Split(SubSeq(s, p + 1, Len(s)), c)

\* str.endswith(suffix)
EndsWith(s, suffix) ==
    /\ Len(s) >= Len(suffix)
    /\ SubSeq(s, Len(s) - Len(suffix) + 1, Len(s)) = suffix

\* decimal rendering of an integer, as str.format does for an int
RECURSIVE ToStr(_)
ToStr(n) == IF n < 0 THEN <<"-">> \o ToStr(0 - n)
            ELSE IF n < 10 THEN <<Digits[n + 1]>>
            ELSE ToStr(n \div 10) \o <<Digits[(n % 10) + 1]>>

\* value of a string of digits
RECURSIVE DigitsVal(_)
DigitsVal(s) == IF Len(s) = 0 THEN 0
                ELSE 10 * DigitsVal(SubSeq(s, 1, Len(s) - 1)) + DigitVal(s[Len(s)])

NULL == <<"N", "U", "L", "L">>

(***************************************************************************)
(* aida.utility.is_number and float(), on the numerals the model draws:    *)
(* an optional '-' followed by digits.                                     *)
(***************************************************************************)
is_number(s) ==
    LET body == IF Len(s) > 0 /\ s[1] = "-" THEN Tail(s) ELSE s
    IN  Len(body) > 0 /\ AllDigits(body)

float(s) == IF s[1] = "-" THEN 0 - DigitsVal(Tail(s)) ELSE DigitsVal(s)

(***************************************************************************)
(* Validator.parse_provenance.  The pattern is                             *)
(*   ^(\w+?):(\w+?):\((\S+),(\S+)\)-\((\S+),(\S+)\)$                        *)
(* Groups 1 and 2 cannot hold ':' so they end at the first and the second  *)
(* ':'.  The four \S+ groups are greedy: the match found is the one with   *)
(* the longest group 3, then the longest group 4, then the longest group 5.*)
(***************************************************************************)
NoMatch == [ok |-> FALSE]

\* the splits <<p1, m, p2>> of r = "(g3,g4)-(g5,g6)": r[p1] = ",",
\* r[m..m+2] = ")-(", r[p2] = ","
SpanSplits(r) ==
    {t \in Positions(r, ",") \X Positions(r, ")") \X Positions(r, ",") :
        /\ Len(r) >= 11
        /\ r[1] = "(" /\ r[Len(r)] = ")"
        /\ 2 < t[1] /\ t[1] + 1 < t[2] /\ t[2] + 3 < t[3] /\ t[3] + 1 < Len(r)
        /\ r[t[2] + 1] = "-" /\ r[t[2] + 2] = "("
        /\ AllNonSpace(SubSeq(r, 2, Len(r) - 1))}

GreedySplit(splits) ==
    CHOOSE t \in splits : \A u \in splits :
        \/ t[1] > u[1]
        \/ t[1] = u[1] /\ t[2] > u[2]
        \/ t[1] = u[1] /\ t[2] = u[2] /\ t[3] >= u[3]

\* the match of "(g3,g4)-(g5,g6)" against r, after groups g1 and g2
SpanPattern(g1, g2, r) ==
    Let(SpanSplits(r), LAMBDA splits :
        IF splits = {} THEN NoMatch
        ELSE Let(GreedySplit(splits), LAMBDA t :
                 [ok |-> TRUE, g1 |-> g1, g2 |-> g2,
                  g3 |-> SubSeq(r, 2, t[1] - 1),
                  g4 |-> SubSeq(r, t[1] + 1, t[2] - 1),
                  g5 |-> SubSeq(r, t[2] + 3, t[3] - 1),
                  g6 |-> SubSeq(r, t[3] + 1, Len(r) - 1)]))

ProvenancePattern(provenance) ==
    Let(Positions(provenance, ":"), LAMBDA colons :
        IF Cardinality(colons) < 2 THEN NoMatch
        ELSE
        LET c1 == Min(colons)
            c2 == Min(colons \ {c1})
            g1 == SubSeq(provenance, 1, c1 - 1)
            g2 == SubSeq(provenance, c1 + 1, c2 - 1)
        IN  IF \/ Len(g1) = 0 \/ ~AllWord(g1)
               \/ Len(g2) = 0 \/ ~AllWord(g2)
            THEN NoMatch
            ELSE Let(SubSeq(provenance, c2 + 1, Len(provenance)),
                     LAMBDA r : SpanPattern(g1, g2, r)))

\* the pattern ^(\w*?)_(\d+)$ on the document element ID: the digits hold no
\* '_', so the '_' matched is the last one
KeyframePattern(id) ==
    LET us == Positions(id, "_")
    IN  IF us = {} THEN NoMatch
        ELSE LET p == Max(us)
             IN  IF p < Len(id) /\ AllDigits(SubSeq(id, p + 1, Len(id)))
                    /\ AllWord(SubSeq(id, 1, p - 1))
                 THEN [ok |-> TRUE, g1 |-> SubSeq(id, 1, p - 1),
                       g2 |-> SubSeq(id, p + 1, Len(id))]
                 ELSE NoMatch

\* keyframe_num is <<>> where the code has None (a match of \d+ is never empty)
parse_provenance(provenance) ==
    Let(ProvenancePattern(provenance), LAMBDA m :
        IF ~m.ok THEN NoMatch
        ELSE Let(KeyframePattern(m.g2), LAMBDA k :
                 [ok |-> TRUE,
                  document_id |-> m.g1,
                  document_element_id |-> IF k.ok THEN k.g1 ELSE m.g2,
                  keyframe_num |-> IF k.ok THEN k.g2 ELSE <<>>,
                  start_x |-> m.g3, start_y |-> m.g4,
                  end_x |-> m.g5, end_y |-> m.g6]))

(***************************************************************************)
(* The corpus the validator consults (the `responses` argument): document  *)
(* mappings, encodings and the four boundary tables.                       *)
(***************************************************************************)
D1 == <<"D", "1">>
D2 == <<"D", "2">>
D9 == <<"D", "9">>
T1 == <<"T", "1">>
T2 == <<"T", "2">>
I1 == <<"I", "1">>
V1 == <<"V", "1">>
A1 == <<"A", "1">>
N1 == <<"N", "1">>
Z9 == <<"Z", "9">>

\* Encodings: the file extensions known to the corpus
encodings == {<<"l", "t", "f">>, <<"j", "p", "g">>, <<"m", "p", "4">>}

\* document_mappings.documents: document ID -> its child document elements
documents == [d \in {D1, D2} |-> IF d = D1 THEN {T1, I1, V1, A1, N1} ELSE {T2}]

\* document_mappings.document_elements: element ID -> modality ("NONE" is None)
document_elements ==
    [e \in {T1, T2, I1, V1, A1, N1} |->
        CASE e \in {T1, T2} -> "text"
          [] e = I1 -> "image"
          [] e = V1 -> "video"
          [] e = A1 -> "audio"
          [] e = N1 -> "NONE"]

Box(ex, ey) == [start_x |-> 0, start_y |-> 0, end_x |-> ex, end_y |-> ey]

text_boundaries == [e \in {T1, T2} |-> Box(10, 0)]
image_boundaries == [e \in {I1} |-> Box(8, 6)]
video_boundaries == [e \in {V1} |-> Box(9, 0)]
keyframe_boundaries == [e \in {V1 \o <<"_", "2">>} |-> Box(8, 6)]

\* the tables ResponseSet is given; responses.get('<kind>_boundaries')
BoundaryKinds == {"text", "image", "keyframe", "video"}

boundaries(kind) ==
    CASE kind = "text" -> text_boundaries
      [] kind = "image" -> image_boundaries
      [] kind = "video" -> video_boundaries
      [] kind = "keyframe" -> keyframe_boundaries

(***************************************************************************)
(* Span and Boundary.  A span holds the four coordinates as numbers.       *)
(***************************************************************************)
Span(sx, sy, ex, ey) ==
    [start_x |-> float(sx), start_y |-> float(sy),
     end_x |-> float(ex), end_y |-> float(ey)]

\* Span.__str__
Span_str(span) ==
    <<"(">> \o ToStr(span.start_x) \o <<",">> \o ToStr(span.start_y)
    \o <<")", "-", "(">> \o ToStr(span.end_x) \o <<",">> \o ToStr(span.end_y)
    \o <<")">>

\* Boundary.validate(span)
Boundary_validate(b, span) ==
    /\ b.start_x <= span.start_x /\ span.start_x <= span.end_x
    /\ span.end_x <= b.end_x
    /\ b.start_y <= span.start_y /\ span.start_y <= span.end_y
    /\ span.end_y <= b.end_y

NoSpan == [none |-> TRUE]

\* Boundary.get('corrected_span', span): the end coordinates clamped to the
\* boundary, or NoSpan (None) when the clamped span is inverted
Boundary_corrected_span(b, span) ==
    LET ex == IF span.end_x > b.end_x THEN b.end_x ELSE span.end_x
        ey == IF span.end_y > b.end_y THEN b.end_y ELSE span.end_y
    IN  IF span.start_x > ex \/ span.start_y > ey
        THEN NoSpan
        ELSE [start_x |-> span.start_x, start_y |-> span.start_y,
              end_x |-> ex, end_y |-> ey]

(***************************************************************************)
(* Validator.validate_coordinates                                          *)
(***************************************************************************)
CoordinateProblem(c) ==
    IF ~is_number(c) THEN "NOT_A_NUMBER"
    ELSE IF float(c) < 0 THEN "NEGATIVE_NUMBER"
    ELSE "ok"

\* validate_coordinates without the test for a negative coordinate
validate_coordinates_signless(start_x, start_y, end_x, end_y) ==
    LET cs == <<start_x, start_y, end_x, end_y>>
        bad == {i \in 1..4 : ~is_number(cs[i])}
    IN  IF bad # {}
        THEN [ret |-> "False", events |-> <<"NOT_A_NUMBER">>]
        ELSE IF float(start_x) > float(end_x) \/ float(start_y) > float(end_y)
        THEN [ret |-> "False", events |-> <<"START_BIGGER_THAN_END">>]
        ELSE [ret |-> "True", events |-> <<>>]

validate_coordinates(start_x, start_y, end_x, end_y) ==
    LET cs == <<start_x, start_y, end_x, end_y>>
        bad == {i \in 1..4 : CoordinateProblem(cs[i]) # "ok"}
    IN  IF bad # {}
        THEN [ret |-> "False", events |-> <<CoordinateProblem(cs[Min(bad)])>>]
        ELSE IF float(start_x) > float(end_x) \/ float(start_y) > float(end_y)
        THEN [ret |-> "False", events |-> <<"START_BIGGER_THAN_END">>]
        ELSE [ret |-> "True", events |-> <<>>]

(***************************************************************************)
(* Validator.validate_provenance_format                                    *)
(***************************************************************************)
validate_provenance_format(provenance) ==
    IF Len(Split(provenance, ":")) # 3
    THEN [ret |-> "False", events |-> <<"INVALID_PROVENANCE_FORMAT">>]
    ELSE IF ~ProvenancePattern(provenance).ok
    THEN [ret |-> "False", events |-> <<"INVALID_PROVENANCE_FORMAT">>]
    ELSE [ret |-> "True", events |-> <<>>]

\* '{}:{}:({},{})-({},{})'.format(...)
FormatProvenance(document_id, document_element_id, sx, sy, ex, ey) ==
    document_id \o <<":">> \o document_element_id \o <<":", "(">> \o sx
    \o <<",">> \o sy \o <<")", "-", "(">> \o ex \o <<",">> \o ey \o <<")">>

\* document_element_id.endswith(extensions)
HasExtension(id) == \E x \in encodings : EndsWith(id, <<".">> \o x)

\* os.path.splitext(id)[0]: the ID up to its last '.', unless that '.' only
\* follows leading dots
splitext_root(id) ==
    LET dots == Positions(id, ".")
    IN  IF dots = {} THEN id
        ELSE LET p == Max(dots)
             IN  IF \A i \in 1..(p - 1) : id[i] = "." THEN id
                 ELSE SubSeq(id, 1, p - 1)

Phase2VideoSchemas ==
    {"AIDA_PHASE2_TASK1_CM_RESPONSE", "AIDA_PHASE2_TASK2_ZH_RESPONSE"}

(***************************************************************************)
(* Validator.validate_provenance.  `schema` is [task, name]; `rec` is the  *)
(* record: [document_id, value, schema_name, metatype], `value` being the  *)
(* field called attribute_name.  The result is the return value, the       *)
(* record as the call leaves it, and the events logged.                    *)
(***************************************************************************)
Outcome(r, rec, ev) == [ret |-> r, entry |-> rec, events |-> ev]

\* validate_span writing the document element ID where the keyframe ID belongs
validate_span_without_keyframe(rec, p, modality, keyframe_id, apply_correction, ev) ==
    LET kind == IF modality = "video" /\ keyframe_id # <<>> THEN "keyframe"
                ELSE modality
        key  == IF modality = "video" /\ keyframe_id # <<>> THEN keyframe_id
                ELSE p.document_element_id
    IN  IF kind \notin BoundaryKinds THEN Outcome("Raised", rec, ev)
        ELSE IF key \notin DOMAIN boundaries(kind) THEN Outcome("Raised", rec, ev)
        ELSE
        LET document_element_boundary == boundaries(kind)[key]
            span == Span(p.start_x, p.start_y, p.end_x, p.end_y)
        IN  IF Boundary_validate(document_element_boundary, span)
            THEN Outcome("True", rec, ev)
            ELSE
            LET corrected_span ==
                    Boundary_corrected_span(document_element_boundary, span)
            IN  IF corrected_span = NoSpan \/ ~apply_correction
                THEN Outcome("False", rec, ev \o <<"SPAN_OFF_BOUNDARY_ERROR">>)
                ELSE Outcome("True",
                             [rec EXCEPT !.value =
                                 p.document_id \o <<":">> \o p.document_element_id
                                 \o <<":">> \o Span_str(corrected_span)],
                             ev \o <<"SPAN_OFF_BOUNDARY_CORRECTED">>)

\* lines 484-494: the boundary lookup, the span check and the correction
validate_span(rec, p, modality, keyframe_id, apply_correction, ev) ==
    LET kind == IF modality = "video" /\ keyframe_id # <<>> THEN "keyframe"
                ELSE modality
        key  == IF modality = "video" /\ keyframe_id # <<>> THEN keyframe_id
                ELSE p.document_element_id
    IN  IF kind \notin BoundaryKinds THEN Outcome("Raised", rec, ev)
        ELSE IF key \notin DOMAIN boundaries(kind) THEN Outcome("Raised", rec, ev)
        ELSE
        LET document_element_boundary == boundaries(kind)[key]
            span == Span(p.start_x, p.start_y, p.end_x, p.end_y)
        IN  IF Boundary_validate(document_element_boundary, span)
            THEN Outcome("True", rec, ev)
            ELSE
            LET corrected_span ==
                    Boundary_corrected_span(document_element_boundary, span)
            IN  IF corrected_span = NoSpan \/ ~apply_correction
                THEN Outcome("False", rec, ev \o <<"SPAN_OFF_BOUNDARY_ERROR">>)
                ELSE
                LET corrected_provenance ==
                        p.document_id \o <<":">>
                        \o (IF keyframe_id # <<>> THEN keyframe_id
                            ELSE p.document_element_id)
                        \o <<":">> \o Span_str(corrected_span)
                IN  Outcome("True", [rec EXCEPT !.value = corrected_provenance],
                            ev \o <<"SPAN_OFF_BOUNDARY_CORRECTED">>)

\* validate_structure without the test that the element is a child of the document
validate_structure_any_parent(rec, p, apply_correction, ev) ==
    IF p.document_id # rec.document_id
    THEN Outcome("False", rec, ev \o <<"MULTIPLE_DOCUMENTS">>)
    ELSE IF p.document_id \notin DOMAIN documents
    THEN Outcome("False", rec, ev \o <<"UNKNOWN_ITEM">>)
    ELSE IF p.document_element_id \notin DOMAIN document_elements
    THEN Outcome("False", rec, ev \o <<"UNKNOWN_ITEM">>)
    ELSE
    LET modality == document_elements[p.document_element_id]
    IN  IF modality = "NONE"
        THEN Outcome("False", rec, ev \o <<"UNKNOWN_MODALITY">>)
        ELSE
        LET keyframe_id ==
                IF modality = "video" /\ p.keyframe_num # <<>>
                THEN p.document_element_id \o <<"_">> \o p.keyframe_num
                ELSE <<>>
        IN  IF keyframe_id # <<>> /\ keyframe_id \notin DOMAIN keyframe_boundaries
            THEN Outcome("False", rec, ev \o <<"MISSING_ITEM_WITH_KEY">>)
            ELSE
            LET c == validate_coordinates(p.start_x, p.start_y, p.end_x, p.end_y)
            IN  IF c.ret = "False" THEN Outcome("False", rec, ev \o c.events)
                ELSE IF /\ rec.schema_name \in Phase2VideoSchemas
                        /\ modality = "video"
                        /\ \/ keyframe_id # <<>> /\ rec.metatype # "Entity"
                           \/ keyframe_id = <<>>
                              /\ rec.metatype \notin {"Relation", "Event"}
                THEN Outcome("False", rec, ev \o <<"UNEXPECTED_JUSTIFICATION">>)
                ELSE validate_span(rec, p, modality, keyframe_id,
                                   apply_correction, ev)

\* validate_structure rejecting a video element that comes without a keyframe
validate_structure_keyframe_required(rec, p, apply_correction, ev) ==
    IF p.document_id # rec.document_id
    THEN Outcome("False", rec, ev \o <<"MULTIPLE_DOCUMENTS">>)
    ELSE IF p.document_id \notin DOMAIN documents
    THEN Outcome("False", rec, ev \o <<"UNKNOWN_ITEM">>)
    ELSE IF p.document_element_id \notin DOMAIN document_elements
    THEN Outcome("False", rec, ev \o <<"UNKNOWN_ITEM">>)
    ELSE
    LET modality == document_elements[p.document_element_id]
    IN  IF modality = "NONE"
        THEN Outcome("False", rec, ev \o <<"UNKNOWN_MODALITY">>)
        ELSE
        LET keyframe_id ==
                IF modality = "video" /\ p.keyframe_num # <<>>
                THEN p.document_element_id \o <<"_">> \o p.keyframe_num
                ELSE <<>>
        IN  IF modality = "video"
               /\ keyframe_id \notin DOMAIN keyframe_boundaries
            THEN Outcome("False", rec, ev \o <<"MISSING_ITEM_WITH_KEY">>)
            ELSE IF p.document_element_id \notin documents[p.document_id]
            THEN Outcome("False", rec, ev \o <<"PARENT_CHILD_RELATION_FAILURE">>)
            ELSE
            LET c == validate_coordinates(p.start_x, p.start_y, p.end_x, p.end_y)
            IN  IF c.ret = "False" THEN Outcome("False", rec, ev \o c.events)
                ELSE IF /\ rec.schema_name \in Phase2VideoSchemas
                        /\ modality = "video"
                        /\ \/ keyframe_id # <<>> /\ rec.metatype # "Entity"
                           \/ keyframe_id = <<>>
                              /\ rec.metatype \notin {"Relation", "Event"}
                THEN Outcome("False", rec, ev \o <<"UNEXPECTED_JUSTIFICATION">>)
                ELSE validate_span(rec, p, modality, keyframe_id,
                                   apply_correction, ev)

\* lines 435-482: the checks against the corpus and the coordinates
validate_structure(rec, p, apply_correction, ev) ==
    IF p.document_id # rec.document_id
    THEN Outcome("False", rec, ev \o <<"MULTIPLE_DOCUMENTS">>)
    ELSE IF p.document_id \notin DOMAIN documents
    THEN Outcome("False", rec, ev \o <<"UNKNOWN_ITEM">>)
    ELSE IF p.document_element_id \notin DOMAIN document_elements
    THEN Outcome("False", rec, ev \o <<"UNKNOWN_ITEM">>)
    ELSE
    LET modality == document_elements[p.document_element_id]
    IN  IF modality = "NONE"
        THEN Outcome("False", rec, ev \o <<"UNKNOWN_MODALITY">>)
        ELSE
        LET keyframe_id ==
                IF modality = "video" /\ p.keyframe_num # <<>>
                THEN p.document_element_id \o <<"_">> \o p.keyframe_num
                ELSE <<>>
        IN  IF keyframe_id # <<>> /\ keyframe_id \notin DOMAIN keyframe_boundaries
            THEN Outcome("False", rec, ev \o <<"MISSING_ITEM_WITH_KEY">>)
            ELSE IF p.document_element_id \notin documents[p.document_id]
            THEN Outcome("False", rec, ev \o <<"PARENT_CHILD_RELATION_FAILURE">>)
            ELSE
            LET c == validate_coordinates(p.start_x, p.start_y, p.end_x, p.end_y)
            IN  IF c.ret = "False" THEN Outcome("False", rec, ev \o c.events)
                ELSE IF /\ rec.schema_name \in Phase2VideoSchemas
                        /\ modality = "video"
                        /\ \/ keyframe_id # <<>> /\ rec.metatype # "Entity"
                           \/ keyframe_id = <<>>
                              /\ rec.metatype \notin {"Relation", "Event"}
                THEN Outcome("False", rec, ev \o <<"UNEXPECTED_JUSTIFICATION">>)
                ELSE validate_span(rec, p, modality, keyframe_id,
                                   apply_correction, ev)

NullAllowedAttributes ==
    {"subject_informative_justification_span_text",
     "predicate_justification_spans_text"}

validate_provenance(schema, rec, attribute_name, provenance, apply_correction) ==
    IF /\ schema.task = "task3"
       /\ attribute_name \in NullAllowedAttributes
       /\ provenance = NULL
    THEN Outcome("True", rec, <<>>)
    ELSE
    IF validate_provenance_format(provenance).ret = "False"
    THEN Outcome("False", rec, validate_provenance_format(provenance).events)
    ELSE
    Let(parse_provenance(provenance), LAMBDA p :
        IF HasExtension(p.document_element_id)
        THEN IF apply_correction
             THEN Let(splitext_root(p.document_element_id), LAMBDA id :
                      validate_structure(
                          [rec EXCEPT !.value =
                              FormatProvenance(p.document_id, id, p.start_x,
                                               p.start_y, p.end_x, p.end_y)],
                          [p EXCEPT !.document_element_id = id],
                          apply_correction, <<"ID_WITH_EXTENSION">>))
             ELSE Outcome("False", rec, <<"ID_WITH_EXTENSION_ERROR">>)
        ELSE validate_structure(rec, p, apply_correction, <<>>))

(***************************************************************************)
(* Validator.validate_value_provenance_triple(s)                           *)
(***************************************************************************)
validate_value_provenance_triple(schema, rec, attribute_name) ==
    validate_provenance(schema, rec, attribute_name, rec.value, TRUE)

\* the loop of lines 398-405 over provenances[i..]: the first provenance that
\* does not validate ends the call; a correction made by one call is seen by
\* the next through the record
RECURSIVE validate_each(_, _, _, _, _, _, _)
validate_each(schema, rec, attribute_name, provenances, i, apply_correction, ev) ==
    IF i > Len(provenances) THEN Outcome("True", rec, ev)
    ELSE Let(validate_provenance(schema, rec, attribute_name,
                                 provenances[i], apply_correction), LAMBDA o :
             IF o.ret # "True" THEN Outcome(o.ret, o.entry, ev \o o.events)
             ELSE validate_each(schema, o.entry, attribute_name, provenances,
                                i + 1, apply_correction, ev \o o.events))

\* validate_value_provenance_triples correcting compound justifications too
validate_value_provenance_triples_correcting(schema, rec, attribute_name) ==
    Let(Split(rec.value, ";"), LAMBDA provenances :
        IF Len(provenances) > 2
        THEN Outcome("False", rec, <<"IMPROPER_COMPOUND_JUSTIFICATION">>)
        ELSE validate_each(schema, rec, attribute_name, provenances, 1,
                           TRUE, <<>>))

validate_value_provenance_triples(schema, rec, attribute_name) ==
    Let(Split(rec.value, ";"), LAMBDA provenances :
        IF Len(provenances) > 2
        THEN Outcome("False", rec, <<"IMPROPER_COMPOUND_JUSTIFICATION">>)
        ELSE validate_each(schema, rec, attribute_name, provenances, 1,
                           Len(provenances) = 1, <<>>))

(***************************************************************************)
(* aida.utility.trim_cv: the value without surrounding double quotes, read *)
(* by float() as a decimal numeral; the number is kept in hundredths (the  *)
(* values drawn have at most two decimals).  ok = FALSE is ValueError.     *)
(***************************************************************************)
Quote == "\""

Unquote(s) ==
    IF Len(s) >= 2 /\ s[1] = Quote /\ s[Len(s)] = Quote
    THEN SubSeq(s, 2, Len(s) - 1) ELSE s

Hundredths(frac) ==
    IF Len(frac) = 0 THEN 0
    ELSE IF Len(frac) = 1 THEN 10 * DigitVal(frac[1])
    ELSE 10 * DigitVal(frac[1]) + DigitVal(frac[2])

trim_cv(cv) ==
    LET t    == Unquote(cv)
        neg  == Len(t) > 0 /\ t[1] = "-"
        body == IF neg THEN Tail(t) ELSE t
        dots == Positions(body, ".")
        ip   == IF dots = {} THEN body ELSE SubSeq(body, 1, Min(dots) - 1)
        fp   == IF dots = {} THEN <<>> ELSE SubSeq(body, Min(dots) + 1, Len(body))
    IN  IF \/ Cardinality(dots) > 1
           \/ ~AllDigits(ip) \/ ~AllDigits(fp)
           \/ (Len(ip) = 0 /\ Len(fp) = 0)
        THEN [ok |-> FALSE]
        ELSE [ok |-> TRUE,
              value |-> (IF neg THEN -1 ELSE 1)
                        * (100 * DigitsVal(ip) + Hundredths(fp))]

\* '"{value}"'.format(value=1.0)
RepairedConfidence == <<Quote, "1", ".", "0", Quote>>

(***************************************************************************)
(* Validator.validate_confidence                                           *)
(***************************************************************************)
\* validate_confidence rejecting the record it repairs
validate_confidence_rejecting(schema, rec, attribute_name) ==
    IF rec.value = NULL /\ schema.task = "task3"
       /\ schema.name = "AIDA_PHASE2_TASK3_GR_RESPONSE"
       /\ attribute_name = "predicate_justification_confidence"
    THEN Outcome("True", rec, <<>>)
    ELSE IF trim_cv(rec.value).ok /\ 0 < trim_cv(rec.value).value
            /\ trim_cv(rec.value).value <= 100
    THEN Outcome("True", rec, <<>>)
    ELSE Outcome("False", [rec EXCEPT !.value = RepairedConfidence],
                 <<"INVALID_CONFIDENCE">>)

validate_confidence(schema, rec, attribute_name) ==
    IF /\ schema.task = "task3"
       /\ schema.name = "AIDA_PHASE2_TASK3_GR_RESPONSE"
       /\ attribute_name = "predicate_justification_confidence"
       /\ rec.value = NULL
    THEN Outcome("True", rec, <<>>)
    ELSE
    LET parsed == trim_cv(rec.value)
        ev1    == IF parsed.ok THEN <<>> ELSE <<"INVALID_CONFIDENCE">>
        rec1   == IF parsed.ok THEN rec
                  ELSE [rec EXCEPT !.value = RepairedConfidence]
        value  == IF parsed.ok THEN parsed.value ELSE 100
    IN  IF ~(0 < value /\ value <= 100)
        THEN Outcome("True", [rec1 EXCEPT !.value = RepairedConfidence],
                     ev1 \o <<"INVALID_CONFIDENCE">>)
        ELSE Outcome("True", rec1, ev1)

\* Validator.validate_importance_value
validate_importance_value(rec) ==
    IF ~trim_cv(rec.value).ok
    THEN Outcome("False", rec, <<"INVALID_IMPORTANCE_VALUE">>)
    ELSE Outcome("True", rec, <<>>)

(***************************************************************************)
(* Membership rules.                                                       *)
(***************************************************************************)
validate_set_membership(allowed_values, rec) ==
    IF rec.value \notin allowed_values
    THEN Outcome("False", rec, <<"UNKNOWN_VALUE">>)
    ELSE Outcome("True", rec, <<>>)

\* the allowed values of the rules that only call validate_set_membership
AllowedValues(rule) ==
    CASE rule = "validate_claim_component_type" ->
            {"claimMedium", "claimer", "claimerAffiliation", "claimLocation",
             "xVariable"}
      [] rule = "validate_claim_epistemic_status" ->
            {"EpistemicTrueCertain", "EpistemicTrueUncertain",
             "EpistemicFalseCertain", "EpistemicFalseUncertain",
             "EpistemicUnknown"}
      [] rule = "validate_claim_sentiment_status" ->
            {"SentimentPositive", "SentimentNegative", "SentimentMixed",
             "SentimentNeutralUnknown"}
      [] rule = "validate_negation_status" -> {"Negated", "NotNegated"}

MembershipRules == {"validate_claim_component_type",
                    "validate_claim_epistemic_status",
                    "validate_claim_sentiment_status",
                    "validate_negation_status"}

\* Validator.validate_claim_relation: the claim of the record is marked
\* invalid when the value is not allowed
validate_claim_relation(rec) ==
    LET o == validate_set_membership({"supporting", "refuting", "related"}, rec)
    IN  IF o.ret = "False"
        THEN Outcome("False", [rec EXCEPT !.claim_valid = FALSE], o.events)
        ELSE o

\* Validator.validate_metatype; rec.cluster_metatype is "NONE" for a record
\* without a cluster
validate_metatype(rec, attribute_name) ==
    IF rec.value \notin {"Entity", "Relation", "Event"}
    THEN Outcome("False", rec, <<"INVALID_METATYPE">>)
    ELSE IF /\ attribute_name \in {"subject_cluster_member_metatype",
                                   "subject_metatype"}
            /\ rec.value = "Entity"
    THEN Outcome("False", rec, <<"UNEXPECTED_VALUE">>)
    ELSE IF rec.cluster_metatype # "NONE" /\ rec.cluster_metatype # rec.value
    THEN Outcome("False", rec, <<"UNEXPECTED_VALUE">>)
    ELSE Outcome("True", rec, <<>>)

\* Validator.validate_entries_in_cluster; rec.value holds the 'valid' flags
\* of the entries of the cluster
validate_entries_in_cluster(rec) ==
    IF \E i \in 1..Len(rec.value) : rec.value[i]
    THEN Outcome("True", rec, <<>>)
    ELSE Outcome("False", rec, <<>>)

\* the rules that validate nothing in Phase 3
TrivialRules == {"validate_cluster_type", "validate_object_type",
                 "validate_predicate", "validate_subject_type"}

validate_nothing(rec) == Outcome("True", rec, <<>>)

(***************************************************************************)
(* Claim rules that consult the loaded queries.  `queries` is "NONE" when  *)
(* no queries were loaded.                                                 *)
(***************************************************************************)
\* queries.conditions: condition -> its claim frames and its topics
conditions ==
    [c \in {"Condition5", "Condition6"} |->
        IF c = "Condition5"
        THEN [query_claim_frames |-> {}, topics |-> {"topicA", "topicB"}]
        ELSE [query_claim_frames |-> {"frame1"}, topics |-> {}]]

validate_claim_condition(queries, rec) ==
    IF queries # "NONE" /\ rec.value \notin DOMAIN conditions
    THEN Outcome("False", rec, <<"UNKNOWN_CLAIM_CONDITION">>)
    ELSE Outcome("True", rec, <<>>)

\* conditions.get(claim_condition) is None for an unknown condition, and
\* None.get raises AttributeError
validate_claim_query_topic_or_claim_frame_id(queries, rec) ==
    IF queries = "NONE" THEN Outcome("True", rec, <<>>)
    ELSE IF rec.claim_condition \notin DOMAIN conditions
    THEN Outcome("Raised", rec, <<>>)
    ELSE
    LET query_condition == conditions[rec.claim_condition]
        ids == IF query_condition.query_claim_frames # {}
               THEN query_condition.query_claim_frames
               ELSE query_condition.topics
    IN  IF rec.value \notin ids
        THEN Outcome("False", rec,
                     <<"UNKNOWN_CLAIM_QUERY_TOPIC_OR_CLAIM_FRAME_ID">>)
        ELSE Outcome("True", rec, <<>>)

validate_query_topic(queries, rec) ==
    IF queries = "NONE" THEN Outcome("True", rec, <<>>)
    ELSE IF rec.claim_condition \notin DOMAIN conditions
    THEN Outcome("Raised", rec, <<>>)
    ELSE IF rec.value \notin conditions[rec.claim_condition].topics
    THEN Outcome("False", rec,
                 <<"UNKNOWN_CLAIM_QUERY_TOPIC_OR_CLAIM_FRAME_ID">>)
    ELSE Outcome("True", rec, <<>>)

\* rec.value is query_claim_id
validate_query_claim_id(queries, rec) ==
    IF rec.claim_query_topic_or_claim_frame_id # rec.value
    THEN Outcome("False", rec, <<"UNEXPECTED_CLAIM_ID">>)
    ELSE IF queries = "NONE" THEN Outcome("True", rec, <<>>)
    ELSE IF rec.claim_condition \notin DOMAIN conditions
    THEN Outcome("False", rec, <<"UNKNOWN_CLAIM_CONDITION">>)
    ELSE
    LET query_condition == conditions[rec.claim_condition]
        ids == IF query_condition.query_claim_frames # {}
               THEN query_condition.query_claim_frames
               ELSE query_condition.topics
    IN  IF rec.claim_query_topic_or_claim_frame_id \notin ids
        THEN Outcome("False", rec,
                     <<"UNKNOWN_CLAIM_QUERY_TOPIC_OR_CLAIM_FRAME_ID">>)
        ELSE Outcome("True", rec, <<>>)

(***************************************************************************)
(* Date rules.  An optional number is <<>> (None) or <<n>>; an optional    *)
(* date object is <<>> or <<[year, month, day]>> of optional numbers.      *)
(***************************************************************************)
Truthy(x) == x # <<>> /\ x[1] # 0

IsLeap(y) == (y % 4 = 0 /\ y % 100 # 0) \/ y % 400 = 0

DaysInMonth(y, m) ==
    IF m = 2 THEN (IF IsLeap(y) THEN 29 ELSE 28)
    ELSE IF m \in {4, 6, 9, 11} THEN 30 ELSE 31

\* datetime.date(y, m, d) does not raise ValueError
IsCalendarDate(y, m, d) ==
    /\ 1 <= y /\ y <= 9999
    /\ 1 <= m /\ m <= 12
    /\ 1 <= d /\ d <= DaysInMonth(y, m)

\* Validator.validate_date; rec.value is the optional date object.  None < 0
\* raises TypeError
validate_date(rec) ==
    IF rec.value = <<>> THEN Outcome("True", rec, <<>>)
    ELSE
    LET year  == rec.value[1].year
        month == rec.value[1].month
        day   == rec.value[1].day
    IN  IF Truthy(year) /\ Truthy(month) /\ Truthy(day)
        THEN IF IsCalendarDate(year[1], month[1], day[1])
             THEN Outcome("True", rec, <<>>)
             ELSE Outcome("False", rec, <<"INVALID_DATE">>)
        ELSE IF year = <<>> THEN Outcome("Raised", rec, <<>>)
        ELSE IF year[1] < 0 THEN Outcome("False", rec, <<"INVALID_DATE">>)
        ELSE IF Truthy(month) /\ ~(1 <= month[1] /\ month[1] <= 12)
        THEN Outcome("False", rec, <<"INVALID_DATE">>)
        ELSE Outcome("True", rec, <<>>)

\* Validator.validate_before_and_after_dates on two date objects: the field
\* found out of order ("NONE" when the range is consistent), or "Raised"
\* when a year is None
problem_field(before, after) ==
    IF before.year = <<>> \/ after.year = <<>> THEN "Raised"
    ELSE IF before.year[1] < after.year[1] THEN "year"
    ELSE IF before.year[1] # after.year[1] THEN "NONE"
    ELSE IF ~(Truthy(before.month) /\ Truthy(after.month)) THEN "NONE"
    ELSE IF before.month[1] < after.month[1] THEN "month"
    ELSE IF before.month[1] # after.month[1] THEN "NONE"
    ELSE IF Truthy(before.day) /\ Truthy(after.day)
            /\ before.day[1] < after.day[1] THEN "day"
    ELSE "NONE"

\* the schemas whose INVALID_DATE_RANGE event names the claim
ClaimSchemas == {"AIDA_PHASE3_TASK3_CT_RESPONSE",
                 "AIDA_PHASE3_TASK3_TM_RESPONSE"}

\* the arguments validate_before_and_after_dates hands to record_event after
\* the code INVALID_DATE_RANGE; the record's identifier and location are
\* the names of the fields read
date_range_event(schema, start_or_end_after, start_or_end_before) ==
    IF schema.name \in ClaimSchemas
    THEN <<"Claim", "claim_uid", start_or_end_after, start_or_end_before,
           "where">>
    ELSE <<"Cluster", "subject_cluster_id", start_or_end_after,
           start_or_end_before, "where">>

validate_before_and_after_dates(schema, rec, start_or_end_before, before, start_or_end_after, after) ==
    LET f == problem_field(before, after)
    IN  IF f = "Raised" THEN Outcome("Raised", rec, <<>>)
        ELSE IF f = "NONE" THEN Outcome("True", rec, <<>>)
        ELSE [ret |-> "False", entry |-> rec,
              events |-> <<"INVALID_DATE_RANGE">>,
              event_args |-> date_range_event(schema, start_or_end_after,
                                              start_or_end_before)]

\* Validator.validate_date_range; rec.after and rec.before are the optional
\* date objects '<name>_after' and '<name>_before'
validate_date_range(schema, rec, attribute_name) ==
    IF rec.after # <<>> /\ rec.before # <<>>
    THEN validate_before_and_after_dates(schema, rec,
             attribute_name \o "_before", rec.before[1],
             attribute_name \o "_after", rec.after[1])
    ELSE Outcome("True", rec, <<>>)

\* Validator.validate_date_start_and_end; rec.after is date.start.after and
\* rec.before is date.end.before, <<>> when any of the objects on the way is
\* missing
validate_date_start_and_end(schema, rec) ==
    IF rec.after # <<>> /\ rec.before # <<>>
    THEN validate_before_and_after_dates(schema, rec, "end_before",
             rec.before[1], "start_after", rec.after[1])
    ELSE Outcome("True", rec, <<>>)

(***************************************************************************)
(* The inputs drawn.                                                       *)
(***************************************************************************)
Ext(x) == <<".">> \o x

InputElements ==
    {T1, T1 \o Ext(<<"l", "t", "f">>), I1, I1 \o Ext(<<"j", "p", "g">>),
     V1, V1 \o <<"_", "2">>, V1 \o <<"_", "7">>, T1 \o <<"_", "3">>,
     A1, N1, T2, Z9}

\* <<document_id of the record, document ID of the provenance>>
InputDocuments == {<<D1, D1>>, <<D1, D2>>, <<D2, D2>>, <<D9, D9>>}

InputX ==
    {<<ToStr(0), ToStr(5)>>, <<ToStr(2), ToStr(8)>>,
     <<ToStr(0), ToStr(MaxCoord)>>, <<ToStr(11), ToStr(MaxCoord)>>,
     <<ToStr(5), ToStr(3)>>, <<<<"x">>, ToStr(5)>>, <<ToStr(0), <<"x">>>>,
     <<<<"-", "1">>, ToStr(5)>>}

InputY ==
    {<<ToStr(0), ToStr(0)>>, <<ToStr(1), ToStr(3)>>, <<ToStr(1), ToStr(9)>>,
     <<ToStr(4), ToStr(2)>>, <<ToStr(0), <<"-", "1">>>>}

WellFormed ==
    {<<d[1], FormatProvenance(d[2], e, x[1], y[1], x[2], y[2])>> :
        d \in InputDocuments, e \in InputElements, x \in InputX, y \in InputY}

Good == FormatProvenance(D1, T1, ToStr(0), ToStr(0), ToStr(5), ToStr(0))

Malformed ==
    {NULL,
     D1 \o <<":">> \o T1,
     Good \o <<":">> \o T1,
     <<"D", "-", "1", ":">> \o T1 \o <<":", "(", "0", ",", "0", ")", "-", "(", "5", ",", "0", ")">>,
     D1 \o <<":", ":", "(", "0", ",", "0", ")", "-", "(", "5", ",", "0", ")">>,
     D1 \o <<":">> \o T1 \o <<":", "(", "0", ",", "0", ")", "(", "5", ",", "0", ")">>,
     D1 \o <<":">> \o T1 \o <<":", "(", " ", ",", "0", ")", "-", "(", "5", ",", "0", ")">>,
     D1 \o <<":">> \o T1 \o <<":", "(", "0", ",", "0", ",", "1", ")", "-", "(", "5", ",", "0", ")">>,
     D1 \o <<":">> \o T1 \o <<":", "(", "0", ",", "0", ")", "-", "(", "5", ",", "0">>}

\* <<document_id of the record, provenance>>
InputProvenances == WellFormed \cup {<<D1, m>> : m \in Malformed}

\* the schema, the attribute and the metatype of the record validated
InputContexts ==
    {[task |-> "task1", name |-> "AIDA_PHASE3_TASK1_CM_RESPONSE",
      attribute_name |-> "mention_span_text", metatype |-> "Entity"],
     [task |-> "task1", name |-> "AIDA_PHASE2_TASK1_CM_RESPONSE",
      attribute_name |-> "mention_span_text", metatype |-> "Entity"],
     [task |-> "task1", name |-> "AIDA_PHASE2_TASK1_CM_RESPONSE",
      attribute_name |-> "mention_span_text", metatype |-> "Event"],
     [task |-> "task3", name |-> "AIDA_PHASE3_TASK3_GR_RESPONSE",
      attribute_name |-> "subject_informative_justification_span_text",
      metatype |-> "Entity"],
     [task |-> "task3", name |-> "AIDA_PHASE3_TASK3_GR_RESPONSE",
      attribute_name |-> "predicate_justification_spans_text",
      metatype |-> "Relation"]}

ProvenanceRecord(c, document_id, value) ==
    [document_id |-> document_id, value |-> value, schema_name |-> c.name,
     metatype |-> c.metatype]

Schema(c) == [task |-> c.task, name |-> c.name]

\* the provenances joined into compound justifications
InputSegments ==
    {Good,
     FormatProvenance(D1, T1, ToStr(0), ToStr(0), ToStr(MaxCoord), ToStr(0)),
     FormatProvenance(D1, T1, ToStr(11), ToStr(0), ToStr(MaxCoord), ToStr(0)),
     FormatProvenance(D1, T1 \o Ext(<<"l", "t", "f">>), ToStr(0), ToStr(0),
                      ToStr(5), ToStr(0)),
     FormatProvenance(D1, I1, ToStr(2), ToStr(1), ToStr(8), ToStr(3)),
     FormatProvenance(D1, V1 \o <<"_", "2">>, ToStr(1), ToStr(1), ToStr(4),
                      ToStr(3)),
     FormatProvenance(D1, T1, ToStr(5), ToStr(0), ToStr(3), ToStr(0)),
     NULL}

RECURSIVE Join(_, _)
Join(segments, c) ==
    IF Len(segments) = 1 THEN segments[1]
    ELSE segments[1] \o <<c>> \o Join(Tail(segments), c)

InputCompounds ==
    UNION {[1..n -> InputSegments] : n \in 1..MaxSegments}

InputConfidences ==
    {<<"a", "b", "c">>, <<>>, NULL, <<"0">>, <<"1">>, <<"2">>,
     <<"1", ".", "5">>, <<"-", "0", ".", "2">>, <<"0", ".", "7", "3">>,
     <<"1", ".", "0">>, <<"0", ".", "0">>, <<"1", ".", "0", "1">>,
     <<Quote, "0", ".", "5", Quote>>, <<Quote, "7", Quote>>, <<"1", ".">>}

InputConfidenceContexts ==
    {[task |-> t, name |-> n, attribute_name |-> a] :
        t \in {"task1", "task3"},
        n \in {"AIDA_PHASE2_TASK3_GR_RESPONSE", "AIDA_PHASE3_TASK3_GR_RESPONSE"},
        a \in {"predicate_justification_confidence",
               "object_informative_justification_confidence"}}

OptYears == {<<>>} \cup {<<y>> : y \in -1..MaxYear}
OptMonths == {<<>>, <<0>>, <<1>>, <<2>>, <<12>>, <<13>>}
OptDays == {<<>>, <<1>>, <<28>>, <<29>>, <<30>>, <<31>>, <<32>>}

InputDates ==
    {<<>>} \cup {<<[year |-> y, month |-> m, day |-> d]>> :
                    y \in OptYears, m \in OptMonths, d \in OptDays}

\* the dates drawn for the two ends of a range
RangeDates ==
    {<<>>} \cup {<<[year |-> y, month |-> m, day |-> d]>> :
                    y \in {<<>>, <<MaxYear - 1>>, <<MaxYear>>},
                    m \in {<<>>, <<0>>, <<5>>, <<6>>},
                    d \in {<<>>, <<0>>, <<1>>, <<2>>}}

\* the schemas of the records carrying a date range
InputRangeSchemas == {"AIDA_PHASE3_TASK3_CT_RESPONSE",
                      "AIDA_PHASE2_TASK1_CM_RESPONSE"}

InputFlags == UNION {[1..n -> BOOLEAN] : n \in 0..MaxEntries}

Metatypes == {"Entity", "Relation", "Event", "Other"}

InputConditions == {"Condition5", "Condition6", "Condition7"}

InputIds == {"topicA", "frame1", "other"}

(***************************************************************************)
(* The state machine: the validator is handed a record and applies one     *)
(* rule to it; NextRecord goes on to the next record.                      *)
(***************************************************************************)
NoRecord == [none |-> TRUE]

Init ==
    /\ method = "none"
    /\ args = NoRecord
    /\ entry = NoRecord
    /\ ret = "none"
    /\ events = <<>>
    /\ event_args = <<>>
    /\ manager = NoRecord
    /\ scorers = <<>>
    /\ process = NoRecord

\* the call of rule m with arguments a ends with outcome o
Apply(m, a, o) ==
    /\ method' = m
    /\ args' = a
    /\ entry' = o.entry
    /\ ret' = o.ret
    /\ events' = o.events
    /\ event_args' = IF "event_args" \in DOMAIN o THEN o.event_args ELSE <<>>
    /\ UNCHANGED <<manager, scorers, process>>

ValidateProvenance ==
    /\ method = "none"
    /\ \E c \in InputContexts, dp \in InputProvenances, apply_correction \in BOOLEAN :
        LET rec == ProvenanceRecord(c, dp[1], dp[2])
        IN  Apply("validate_provenance",
                  [schema |-> Schema(c), attribute_name |-> c.attribute_name,
                   entry |-> rec, provenance |-> dp[2],
                   apply_correction |-> apply_correction],
                  validate_provenance(Schema(c), rec, c.attribute_name, dp[2],
                                      apply_correction))

ValidateValueProvenanceTriple ==
    /\ method = "none"
    /\ \E c \in InputContexts, v \in InputSegments :
        LET rec == ProvenanceRecord(c, D1, v)
        IN  Apply("validate_value_provenance_triple",
                  [schema |-> Schema(c), attribute_name |-> c.attribute_name,
                   entry |-> rec],
                  validate_value_provenance_triple(Schema(c), rec,
                                                   c.attribute_name))

ValidateValueProvenanceTriples ==
    /\ method = "none"
    /\ \E c \in InputContexts, segments \in InputCompounds :
        LET rec == ProvenanceRecord(c, D1, Join(segments, ";"))
        IN  Apply("validate_value_provenance_triples",
                  [schema |-> Schema(c), attribute_name |-> c.attribute_name,
                   entry |-> rec, segments |-> segments],
                  validate_value_provenance_triples(Schema(c), rec,
                                                    c.attribute_name))

ValidateConfidence ==
    /\ method = "none"
    /\ \E c \in InputConfidenceContexts, v \in InputConfidences :
        LET rec == [value |-> v]
        IN  Apply("validate_confidence",
                  [schema |-> Schema(c), attribute_name |-> c.attribute_name,
                   entry |-> rec],
                  validate_confidence(Schema(c), rec, c.attribute_name))

ValidateImportanceValue ==
    /\ method = "none"
    /\ \E v \in InputConfidences :
        Apply("validate_importance_value", [entry |-> [value |-> v]],
              validate_importance_value([value |-> v]))

ValidateMembership ==
    /\ method = "none"
    /\ \E rule \in MembershipRules,
       v \in UNION {AllowedValues(r) : r \in MembershipRules} \cup {"other"} :
        Apply(rule, [entry |-> [value |-> v]],
              validate_set_membership(AllowedValues(rule), [value |-> v]))

ValidateClaimRelation ==
    /\ method = "none"
    /\ \E v \in {"supporting", "refuting", "related", "other"} :
        LET rec == [value |-> v, claim_valid |-> TRUE]
        IN  Apply("validate_claim_relation", [entry |-> rec],
                  validate_claim_relation(rec))

ValidateMetatype ==
    /\ method = "none"
    /\ \E v \in Metatypes, cm \in {"NONE", "Entity", "Relation", "Event"},
       a \in {"metatype", "subject_metatype", "subject_cluster_member_metatype"} :
        LET rec == [value |-> v, cluster_metatype |-> cm]
        IN  Apply("validate_metatype", [entry |-> rec, attribute_name |-> a],
                  validate_metatype(rec, a))

ValidateEntriesInCluster ==
    /\ method = "none"
    /\ \E flags \in InputFlags :
        Apply("validate_entries_in_cluster", [entry |-> [value |-> flags]],
              validate_entries_in_cluster([value |-> flags]))

ValidateNothing ==
    /\ method = "none"
    /\ \E rule \in TrivialRules, v \in Metatypes :
        Apply(rule, [entry |-> [value |-> v]], validate_nothing([value |-> v]))

ValidateClaimCondition ==
    /\ method = "none"
    /\ \E q \in {"NONE", "loaded"}, v \in InputConditions :
        Apply("validate_claim_condition",
              [queries |-> q, entry |-> [value |-> v]],
              validate_claim_condition(q, [value |-> v]))

ValidateClaimQueryTopicOrClaimFrameId ==
    /\ method = "none"
    /\ \E q \in {"NONE", "loaded"}, cc \in InputConditions, v \in InputIds :
        LET rec == [value |-> v, claim_condition |-> cc]
        IN  Apply("validate_claim_query_topic_or_claim_frame_id",
                  [queries |-> q, entry |-> rec],
                  validate_claim_query_topic_or_claim_frame_id(q, rec))

ValidateQueryTopic ==
    /\ method = "none"
    /\ \E q \in {"NONE", "loaded"}, cc \in InputConditions, v \in InputIds :
        LET rec == [value |-> v, claim_condition |-> cc]
        IN  Apply("validate_query_topic", [queries |-> q, entry |-> rec],
                  validate_query_topic(q, rec))

ValidateQueryClaimId ==
    /\ method = "none"
    /\ \E q \in {"NONE", "loaded"}, cc \in InputConditions, v \in InputIds,
       id \in InputIds :
        LET rec == [value |-> v, claim_condition |-> cc,
                    claim_query_topic_or_claim_frame_id |-> id]
        IN  Apply("validate_query_claim_id", [queries |-> q, entry |-> rec],
                  validate_query_claim_id(q, rec))

ValidateDate ==
    /\ method = "none"
    /\ \E d \in InputDates :
        Apply("validate_date", [entry |-> [value |-> d]],
              validate_date([value |-> d]))

ValidateDateRange ==
    /\ method = "none"
    /\ \E a \in RangeDates, b \in RangeDates, n \in InputRangeSchemas :
        LET rec == [after |-> a, before |-> b]
        IN  Apply("validate_date_range",
                  [schema |-> [name |-> n], entry |-> rec],
                  validate_date_range([name |-> n], rec, "date"))

ValidateDateStartAndEnd ==
    /\ method = "none"
    /\ \E a \in RangeDates, b \in RangeDates, n \in InputRangeSchemas :
        LET rec == [after |-> a, before |-> b]
        IN  Apply("validate_date_start_and_end",
                  [schema |-> [name |-> n], entry |-> rec],
                  validate_date_start_and_end([name |-> n], rec))

NextRecord ==
    /\ method # "none"
    /\ method' = "none"
    /\ args' = NoRecord
    /\ entry' = NoRecord
    /\ ret' = "none"
    /\ events' = <<>>
    /\ event_args' = <<>>
    /\ UNCHANGED <<manager, scorers, process>>

Next ==
    \/ ValidateProvenance
    \/ ValidateValueProvenanceTriple
    \/ ValidateValueProvenanceTriples
    \/ ValidateConfidence
    \/ ValidateImportanceValue
    \/ ValidateMembership
    \/ ValidateClaimRelation
    \/ ValidateMetatype
    \/ ValidateEntriesInCluster
    \/ ValidateNothing
    \/ ValidateClaimCondition
    \/ ValidateClaimQueryTopicOrClaimFrameId
    \/ ValidateQueryTopic
    \/ ValidateQueryClaimId
    \/ ValidateDate
    \/ ValidateDateRange
    \/ ValidateDateStartAndEnd
    \/ NextRecord

Spec == Init /\ [][Next]_vars

(***************************************************************************)
(* Properties.                                                             *)
(***************************************************************************)
Logged(code) == \E i \in DOMAIN events : events[i] = code

\* the confidence value is a number in (0, 1]
InUnitInterval(v) ==
    /\ trim_cv(v).ok
    /\ 0 < trim_cv(v).value /\ trim_cv(v).value <= 100

\* the call is the one validate_confidence accepts without reading the value
ConfidenceNullCase ==
    /\ args.schema.task = "task3"
    /\ args.schema.name = "AIDA_PHASE2_TASK3_GR_RESPONSE"
    /\ args.attribute_name = "predicate_justification_confidence"
    /\ args.entry.value = NULL

ConfidenceRepaired ==
    /\ ret = "True"
    /\ entry.value = RepairedConfidence
    /\ Logged("INVALID_CONFIDENCE")

ConfidenceUntouched ==
    /\ ret = "True"
    /\ entry = args.entry
    /\ events = <<>>

\* C1 as stated: validate_confidence always returns true; a value that is no
\* number in (0, 1] is replaced by 1.0 with an INVALID_CONFIDENCE event, and
\* a number in (0, 1] is left alone with no event.
C1_AsStated ==
    method = "validate_confidence" =>
        IF InUnitInterval(args.entry.value) THEN ConfidenceUntouched
        ELSE ConfidenceRepaired

\* C1 amended: as C1, except that the value NULL of the attribute
\* predicate_justification_confidence of an AIDA_PHASE2_TASK3_GR_RESPONSE
\* record of task3 is accepted as it is, with no repair and no event.
C1_ConfidenceRepair ==
    method = "validate_confidence" =>
        IF ConfidenceNullCase \/ InUnitInterval(args.entry.value)
        THEN ConfidenceUntouched
        ELSE ConfidenceRepaired

C1_Witness ==
    /\ method = "validate_confidence"
    /\ ~InUnitInterval(args.entry.value)
    /\ ~ConfidenceNullCase
    /\ ConfidenceRepaired
    /\ entry # args.entry

(***************************************************************************)
(* What the arguments of a validate_provenance call say, read off the      *)
(* provenance and the corpus.                                              *)
(***************************************************************************)
Parsed == parse_provenance(args.provenance)

ProvenanceNullCase ==
    /\ args.schema.task = "task3"
    /\ args.attribute_name \in NullAllowedAttributes
    /\ args.provenance = NULL

MatchesGrammar ==
    /\ Len(Split(args.provenance, ":")) = 3
    /\ Parsed.ok

ElementModality == document_elements[Parsed.document_element_id]

HasKeyframe == ElementModality = "video" /\ Parsed.keyframe_num # <<>>

KeyframeId == Parsed.document_element_id \o <<"_">> \o Parsed.keyframe_num

\* the document, the element, the keyframe and their relation are in order
CorpusOk ==
    /\ MatchesGrammar
    /\ Parsed.document_id = args.entry.document_id
    /\ Parsed.document_id \in DOMAIN documents
    /\ Parsed.document_element_id \in DOMAIN document_elements
    /\ ElementModality \in {"text", "image", "video"}
    /\ HasKeyframe => KeyframeId \in DOMAIN keyframe_boundaries
    /\ Parsed.document_element_id \in documents[Parsed.document_id]

BadCoordinates ==
    \/ \E c \in {Parsed.start_x, Parsed.start_y, Parsed.end_x, Parsed.end_y} :
          ~is_number(c) \/ float(c) < 0
    \/ float(Parsed.start_x) > float(Parsed.end_x)
    \/ float(Parsed.start_y) > float(Parsed.end_y)

\* the Phase 2 rule on video justifications does not reject the record
JustificationOk ==
    (args.entry.schema_name \in Phase2VideoSchemas /\ ElementModality = "video")
        => IF HasKeyframe THEN args.entry.metatype = "Entity"
           ELSE args.entry.metatype \in {"Relation", "Event"}

ChecksPass == CorpusOk /\ ~BadCoordinates /\ JustificationOk

ResolvedBoundary ==
    IF HasKeyframe THEN keyframe_boundaries[KeyframeId]
    ELSE boundaries(ElementModality)[Parsed.document_element_id]

ArgSpan == Span(Parsed.start_x, Parsed.start_y, Parsed.end_x, Parsed.end_y)

Inside == Boundary_validate(ResolvedBoundary, ArgSpan)

Corrected == Boundary_corrected_span(ResolvedBoundary, ArgSpan)

\* C2: with all checks passed, a span inside the boundary returns true with
\* no rewrite; a span off the boundary is corrected (true, field rewritten
\* to document:keyframe-or-element:corrected span, SPAN_OFF_BOUNDARY_CORRECTED)
\* when apply_correction holds and a corrected span exists, and otherwise
\* fails with SPAN_OFF_BOUNDARY_ERROR and no rewrite.
C2_SpanCorrection ==
    (method = "validate_provenance" /\ ChecksPass) =>
        IF Inside
        THEN ret = "True" /\ entry = args.entry
        ELSE IF args.apply_correction /\ Corrected # NoSpan
        THEN /\ ret = "True"
             /\ Logged("SPAN_OFF_BOUNDARY_CORRECTED")
             /\ entry.value =
                    Parsed.document_id \o <<":">>
                    \o (IF HasKeyframe THEN KeyframeId
                        ELSE Parsed.document_element_id)
                    \o <<":">> \o Span_str(Corrected)
        ELSE /\ ret = "False"
             /\ Logged("SPAN_OFF_BOUNDARY_ERROR")
             /\ entry = args.entry

C2_Witness ==
    /\ method = "validate_provenance"
    /\ ChecksPass /\ ~Inside /\ HasKeyframe
    /\ ret = "True"
    /\ Logged("SPAN_OFF_BOUNDARY_CORRECTED")
    /\ entry # args.entry

\* the second ':'-segment of the provenance ends with a known extension
ElementIdHasExtension ==
    /\ Len(Split(args.provenance, ":")) = 3
    /\ HasExtension(Split(args.provenance, ":")[2])

\* C3: a document element ID with a known extension is stripped and logged as
\* ID_WITH_EXTENSION when apply_correction holds, and fails with
\* ID_WITH_EXTENSION_ERROR when it does not.
C3_ExtensionStripped ==
    (method = "validate_provenance" /\ ElementIdHasExtension) =>
        IF args.apply_correction
        THEN Logged("ID_WITH_EXTENSION") /\ ~HasExtension(Split(entry.value, ":")[2])
        ELSE Logged("ID_WITH_EXTENSION_ERROR") /\ ret = "False"

\* one of the structural failures of C4
StructuralFailure ==
    \/ ~MatchesGrammar
    \/ Parsed.document_id # args.entry.document_id
    \/ Parsed.document_id \notin DOMAIN documents
    \/ Parsed.document_element_id \notin DOMAIN document_elements
    \/ HasKeyframe /\ KeyframeId \notin DOMAIN keyframe_boundaries
    \/ Parsed.document_element_id \notin documents[Parsed.document_id]

Rejected == ret = "False" /\ entry = args.entry

\* C4 as stated: every structural failure returns false and leaves the field
\* as it was, whatever apply_correction is.
C4_AsStated ==
    (method = "validate_provenance" /\ StructuralFailure) => Rejected

\* C4 amended: as C4, except that the provenance NULL of the task3 attributes
\* subject_informative_justification_span_text and
\* predicate_justification_spans_text is accepted: true, field as it was.
C4_StructuralFailure ==
    (method = "validate_provenance" /\ StructuralFailure) =>
        IF ProvenanceNullCase THEN ret = "True" /\ entry = args.entry
        ELSE Rejected

C4_Witness ==
    /\ method = "validate_provenance"
    /\ args.apply_correction
    /\ MatchesGrammar
    /\ Parsed.document_id \in DOMAIN documents
    /\ Parsed.document_element_id \in DOMAIN document_elements
    /\ Parsed.document_element_id \notin documents[Parsed.document_id]
    /\ ~BadCoordinates
    /\ Logged("PARENT_CHILD_RELATION_FAILURE")
    /\ Rejected

\* C5: a provenance with a coordinate that is no number or is negative, or
\* with a start beyond its end, returns false for either apply_correction,
\* and the field is not rewritten.
C5_BadCoordinates ==
    (method = "validate_provenance" /\ MatchesGrammar /\ BadCoordinates) =>
        Rejected

C5_Witness ==
    /\ method = "validate_provenance"
    /\ args.apply_correction
    /\ CorpusOk /\ BadCoordinates
    /\ Logged("NEGATIVE_NUMBER")
    /\ Rejected

(***************************************************************************)
(* Compound justifications.                                                *)
(***************************************************************************)
\* what provenance v needs to validate with no correction: it is the
\* accepted NULL, or passes every check with its span inside the boundary
ValidAsIs(v) ==
    \/ /\ args.schema.task = "task3"
       /\ args.attribute_name \in NullAllowedAttributes
       /\ v = NULL
    \/ Let(parse_provenance(v), LAMBDA q :
           /\ Len(Split(v, ":")) = 3
           /\ q.ok
           /\ q.document_id = args.entry.document_id
           /\ q.document_id \in DOMAIN documents
           /\ q.document_element_id \in documents[q.document_id]
           /\ validate_coordinates(q.start_x, q.start_y, q.end_x, q.end_y).ret
                 = "True"
           /\ LET modality == document_elements[q.document_element_id]
                  keyframe == modality = "video" /\ q.keyframe_num # <<>>
                  span == Span(q.start_x, q.start_y, q.end_x, q.end_y)
              IN  /\ modality \in {"text", "image", "video"}
                  /\ (modality = "video"
                        /\ args.entry.schema_name \in Phase2VideoSchemas)
                        => IF keyframe THEN args.entry.metatype = "Entity"
                           ELSE args.entry.metatype \in {"Relation", "Event"}
                  /\ IF keyframe
                     THEN LET id == q.document_element_id \o <<"_">>
                                    \o q.keyframe_num
                          IN  /\ id \in DOMAIN keyframe_boundaries
                              /\ Boundary_validate(keyframe_boundaries[id], span)
                     ELSE Boundary_validate(
                              boundaries(modality)[q.document_element_id], span))

ArgSegments == Split(args.entry.value, ";")

\* C6: more than 2 segments fail with IMPROPER_COMPOUND_JUSTIFICATION and
\* nothing else is validated; with 2 segments the field is never rewritten
\* and true is returned only if both validate as they are; the field is
\* rewritten only when there is exactly 1 segment.
C6_CompoundJustification ==
    method = "validate_value_provenance_triples" =>
        /\ Len(ArgSegments) > 2 =>
              /\ ret = "False"
              /\ events = <<"IMPROPER_COMPOUND_JUSTIFICATION">>
        /\ Len(ArgSegments) = 2 =>
              (ret = "True" => \A i \in 1..2 : ValidAsIs(ArgSegments[i]))
        /\ entry # args.entry => Len(ArgSegments) = 1

C6_Witness ==
    /\ method = "validate_value_provenance_triples"
    /\ Len(ArgSegments) = 1
    /\ ret = "True"
    /\ entry # args.entry
    /\ Logged("SPAN_OFF_BOUNDARY_CORRECTED")

\* the provenance names a known video element and gives no keyframe number
VideoWithoutKeyframe ==
    /\ MatchesGrammar
    /\ Parsed.document_element_id \in DOMAIN document_elements
    /\ ElementModality = "video"
    /\ Parsed.keyframe_num = <<>>

\* C7 as stated: every provenance that references a video element without a
\* keyframe number is rejected.
C7_AsStated ==
    (method = "validate_provenance" /\ VideoWithoutKeyframe) => ret = "False"

\* C7 amended: a provenance that references a video element without a
\* keyframe number is checked against the video boundary of the element: it
\* is rejected with UNEXPECTED_JUSTIFICATION when the record is of a Phase 2
\* CM or ZH schema and its metatype is neither Relation nor Event, and
\* otherwise it is accepted, with no rewrite, when its span is inside that
\* boundary.
C7_VideoWithoutKeyframe ==
    (method = "validate_provenance" /\ VideoWithoutKeyframe
        /\ CorpusOk /\ ~BadCoordinates) =>
        IF ~JustificationOk
        THEN ret = "False" /\ Logged("UNEXPECTED_JUSTIFICATION")
        ELSE Boundary_validate(video_boundaries[Parsed.document_element_id],
                               ArgSpan)
                => (ret = "True" /\ entry = args.entry)

C7_Witness ==
    /\ method = "validate_provenance"
    /\ VideoWithoutKeyframe
    /\ CorpusOk /\ ~BadCoordinates /\ JustificationOk
    /\ ret = "True"
    /\ events = <<>>

\* C8: a document element whose modality is none of text, image, video makes
\* validate_provenance return false.
C8_UnknownModality ==
    (/\ method = "validate_provenance"
     /\ MatchesGrammar
     /\ Parsed.document_element_id \in DOMAIN document_elements
     /\ ElementModality \notin {"text", "image", "video"}) => ret = "False"

\* C9: a rule that returns false has logged at least one event.
C9_FailureLogged == ret = "False" => events # <<>>

\* C10: validate_date, validate_date_range, validate_date_start_and_end,
\* validate_claim_query_topic_or_claim_frame_id and validate_query_topic end
\* by returning true or false for every record.
C10_NeverRaises ==
    method \in {"validate_date", "validate_date_range",
                "validate_date_start_and_end",
                "validate_claim_query_topic_or_claim_frame_id",
                "validate_query_topic"}
        => ret \in {"True", "False"}

(***************************************************************************)
(* Dates.                                                                  *)
(***************************************************************************)
ArgDate == args.entry.value[1]

Given(x) == x # <<>>

\* the month of the date validated is given and lies outside 1..12
MonthOutOfRange ==
    Given(ArgDate.month) /\ ~(1 <= ArgDate.month[1] /\ ArgDate.month[1] <= 12)

\* year, month and day are all given and name no calendar day
NoCalendarDay ==
    /\ Given(ArgDate.year) /\ Given(ArgDate.month) /\ Given(ArgDate.day)
    /\ ~IsCalendarDate(ArgDate.year[1], ArgDate.month[1], ArgDate.day[1])

\* C11: validate_date, on a date object whose year is given and not
\* negative, returns false with INVALID_DATE when the month is outside 1..12
\* or when year, month and day are all given and name no existing calendar
\* day (year 0 included), and returns true with no event otherwise.
C11_CalendarInvalidRejected ==
    (/\ method = "validate_date"
     /\ Given(args.entry.value)
     /\ Given(ArgDate.year) /\ ArgDate.year[1] >= 0)
        => IF MonthOutOfRange \/ NoCalendarDay
           THEN ret = "False" /\ events = <<"INVALID_DATE">>
           ELSE ret = "True" /\ events = <<>>

\* the two ends of the range validated are both present
RangeGiven == Given(args.entry.after) /\ Given(args.entry.before)

\* C12: when validate_date_range or validate_date_start_and_end finds the
\* range inconsistent, the INVALID_DATE_RANGE event it logs carries the first
\* mismatching field (year, month or day) among its arguments.
C12_ProblemFieldReported ==
    (/\ method \in {"validate_date_range", "validate_date_start_and_end"}
     /\ ret = "False")
        => /\ events = <<"INVALID_DATE_RANGE">>
           /\ \E i \in DOMAIN event_args :
                event_args[i] = problem_field(args.entry.before[1],
                                              args.entry.after[1])

(***************************************************************************)
(* The scorers.  Strings are compared as Python compares them, character   *)
(* by character in code-point order; numbers that Python holds as floats   *)
(* are kept as exact fractions [num, den] in lowest terms.                 *)
(***************************************************************************)
CodePoints ==
    <<"-", ".", "0", "1", "2", "3", "4", "5", "6", "7", "8", "9", ":",
      "A", "B", "C", "D", "E", "F", "G", "H", "I", "J", "K", "L", "M",
      "N", "O", "P", "Q", "R", "S", "T", "U", "V", "W", "X", "Y", "Z", "_",
      "a", "b", "c", "d", "e", "f", "g", "h", "i", "j", "k", "l", "m",
      "n", "o", "p", "q", "r", "s", "t", "u", "v", "w", "x", "y", "z">>

\* rank of the character c in code-point order
ord(c) == CHOOSE i \in DOMAIN CodePoints : CodePoints[i] = c

\* a string as the sequence of its characters' ranks
Codes(str) == [i \in 1..Len(str) |-> ord(str[i])]

\* a < b for two sequences of numbers, as Python orders strings and tuples
SeqLess(a, b) ==
    \/ \E i \in 1..Len(a) :
        /\ i <= Len(b)
        /\ \A j \in 1..(i - 1) : a[j] = b[j]
        /\ a[i] < b[i]
    \/ Len(a) < Len(b) /\ \A j \in 1..Len(a) : a[j] = b[j]

\* k1 < k2 for two sort keys: tuples of strings or numbers, each given as a
\* sequence of numbers
KeyLess(k1, k2) ==
    \E i \in 1..Len(k1) :
        /\ i <= Len(k2)
        /\ \A j \in 1..(i - 1) : k1[j] = k2[j]
        /\ SeqLess(k1[i], k2[i])

\* the keyed item x put into the sorted sequence s behind every item that is
\* not greater
Insert(s, x) ==
    LET p == Cardinality({i \in 1..Len(s) : ~KeyLess(x.key, s[i].key)})
    IN  SubSeq(s, 1, p) \o <<x>> \o SubSeq(s, p + 1, Len(s))

\* sorted(): a stable sort of a sequence of [key, item] by key
RECURSIVE sorted(_)
sorted(s) ==
    IF Len(s) <= 1 THEN s
    ELSE Insert(sorted(SubSeq(s, 1, Len(s) - 1)), s[Len(s)])

\* the items of a sequence of [key, item]
Items(s) == [i \in 1..Len(s) |-> s[i].item]

RECURSIVE GCD(_, _)
GCD(a, b) == IF b = 0 THEN a ELSE GCD(b, a % b)

\* the fraction n/d (n >= 0, d > 0) in lowest terms
Frac(n, d) == [num |-> n \div GCD(n, d), den |-> d \div GCD(n, d)]

Zero == Frac(0, 1)

FracAdd(x, y) == Frac(x.num * y.den + y.num * x.den, x.den * y.den)

\* x / n for a positive integer n
FracDiv(x, n) == Frac(x.num, x.den * n)

FracLeq(x, y) == x.num * y.den <= y.num * x.den

(***************************************************************************)
(* TypeMetricScorerV2.get_average_precision.  The gold types are the keys  *)
(* of augmented_gold_types (a set); the system types are the dictionary    *)
(* augmented_system_types in its order: a sequence of [type, entries],     *)
(* the entries being the mention spans that assert the type.               *)
(***************************************************************************)
\* get_type_weight counting every entry, repeated mention spans included
get_type_weight_counting_entries(entries) == Len(entries)

\* TypeMetricScorerV2.get_type_weight: the number of distinct mention spans
get_type_weight(entries) ==
    Cardinality({entries[i] : i \in DOMAIN entries})

\* TypeMetricScorerV2.get_relevance_weight
get_relevance_weight(type_weight) == 1

\* the ranking with ties of weight broken by type name descending
RankedTypes_name_descending(type_weights) ==
    Items(sorted([i \in DOMAIN type_weights |->
        [key |-> << <<0 - type_weights[i].weight>>,
                    [j \in 1..Len(type_weights[i].type) |->
                        0 - ord(type_weights[i].type[j])] >>,
         item |-> type_weights[i]]]))

\* multisort(type_weights, (('weight', True), ('type', False)))
RankedTypes(type_weights) ==
    Items(sorted([i \in DOMAIN type_weights |->
        [key |-> << <<0 - type_weights[i].weight>>,
                    Codes(type_weights[i].type) >>,
         item |-> type_weights[i]]]))

\* the loop over the ranked list from rank i on; acc is [num_correct,
\* sum_precision, events]
RECURSIVE PrecisionLoop(_, _, _, _)
PrecisionLoop(ranked, gold, i, acc) ==
    IF i > Len(ranked) THEN acc
    ELSE LET hit == ranked[i].type \in gold
             n == IF hit
                  THEN acc.num_correct + get_relevance_weight(ranked[i].weight)
                  ELSE acc.num_correct
         IN  PrecisionLoop(ranked, gold, i + 1,
                [num_correct |-> n,
                 sum_precision |-> IF hit
                                   THEN FracAdd(acc.sum_precision, Frac(n, i))
                                   ELSE acc.sum_precision,
                 events |-> Append(acc.events, "TYPE_METRIC_AP_RANKED_LIST")])

get_average_precision(augmented_gold_types, augmented_system_types) ==
    LET type_weights ==
            [i \in DOMAIN augmented_system_types |->
                [type |-> augmented_system_types[i].type,
                 weight |-> get_type_weight(augmented_system_types[i].entries)]]
        num_ground_truth == Cardinality(augmented_gold_types)
        acc == PrecisionLoop(RankedTypes(type_weights), augmented_gold_types, 1,
                   [num_correct |-> 0, sum_precision |-> Zero, events |-> <<>>])
    IN  [ret |-> "Returned",
         entry |-> IF num_ground_truth # 0
                   THEN FracDiv(acc.sum_precision, num_ground_truth)
                   ELSE Zero,
         events |-> acc.events]

(***************************************************************************)
(* The inputs of get_average_precision.                                    *)
(***************************************************************************)
TypeA == <<"A">>
TypeB == <<"B">>
TypeC == <<"C">>
TypeD == <<"D">>

SystemTypeNames == {TypeA, TypeB, TypeC}
GoldTypeNames == {TypeA, TypeB, TypeC, TypeD}

\* the lists of mention spans asserting one type
InputEntries == {<<"m1">>, <<"m1", "m1">>, <<"m1", "m2">>}

\* the sequences without repetition over the set S
Orders(S) ==
    {q \in UNION {[1..n -> S] : n \in 0..Cardinality(S)} :
        \A i, j \in DOMAIN q : i # j => q[i] # q[j]}

InputSystemTypes ==
    UNION {{[i \in DOMAIN q |-> [type |-> q[i], entries |-> e[i]]] :
                e \in [DOMAIN q -> InputEntries]} : q \in Orders(SystemTypeNames)}

(***************************************************************************)
(* Scorer.aggregate_scores.  A score collection (ScorePrinter, a           *)
(* Container) is the sequence of its rows in the order they were added.    *)
(* A raw row is [document_id, language, metatype, ...]; an aggregate row   *)
(* is [aggregate, summary, language, metatype, elements].                  *)
(***************************************************************************)
ALL == <<"A", "L", "L">>
Entity == <<"E", "n", "t", "i", "t", "y">>
Event == <<"E", "v", "e", "n", "t">>
Relation == <<"R", "e", "l", "a", "t", "i", "o", "n">>
None == <<"N", "o", "n", "e">>

\* Scorer.get_languages
get_languages(score, scores) ==
    IF \E i \in DOMAIN scores : scores[i].language = ALL
    THEN <<score.language>>
    ELSE <<score.language, ALL>>

\* get_metatypes never adding 'ALL'
get_metatypes_concrete(score, scores) == <<score.metatype>>

\* Scorer.get_metatypes
get_metatypes(score, scores) ==
    IF \E i \in DOMAIN scores : scores[i].metatype = ALL
    THEN <<score.metatype>>
    ELSE <<score.metatype, ALL>>

\* the group keys of one score, in the order of the two nested loops
GroupKeys(languages, metatypes) ==
    [k \in 1..(Len(languages) * Len(metatypes)) |->
        [language |-> languages[((k - 1) \div Len(metatypes)) + 1],
         metatype |-> metatypes[((k - 1) % Len(metatypes)) + 1]]]

group_by(g) == g.language \o <<",">> \o g.metatype

\* the body of the innermost loop: the score added to the aggregate of the
\* group, which is created first when the group is new
AddToGroup(aggregates, g, score) ==
    IF \E i \in DOMAIN aggregates : aggregates[i].group_by = group_by(g)
    THEN [i \in DOMAIN aggregates |->
            IF aggregates[i].group_by = group_by(g)
            THEN [aggregates[i] EXCEPT !.elements = Append(@, score)]
            ELSE aggregates[i]]
    ELSE Append(aggregates,
                [group_by |-> group_by(g), aggregate |-> TRUE,
                 summary |-> TRUE, language |-> g.language,
                 metatype |-> g.metatype, elements |-> <<score>>])

RECURSIVE AddToGroups(_, _, _, _)
AddToGroups(aggregates, groups, k, score) ==
    IF k > Len(groups) THEN aggregates
    ELSE AddToGroups(AddToGroup(aggregates, groups[k], score), groups,
                     k + 1, score)

\* the first loop of aggregate_scores from score i on: the dictionary
\* `aggregates` in insertion order
RECURSIVE Aggregates(_, _, _)
Aggregates(scores, i, aggregates) ==
    IF i > Len(scores) THEN aggregates
    ELSE Aggregates(scores, i + 1,
            AddToGroups(aggregates,
                        GroupKeys(get_languages(scores[i], scores),
                                  get_metatypes(scores[i], scores)),
                        1, scores[i]))

\* Scorer.order
order(k) ==
    LET metatype == IF k.metatype = ALL THEN <<"_">> \o ALL ELSE k.metatype
        language == IF k.language = ALL THEN <<"_">> \o ALL ELSE k.language
    IN  language \o <<":">> \o metatype

\* the value of an aggregate: the row without its dictionary key
AggregateRow(a) ==
    [aggregate |-> a.aggregate, summary |-> a.summary,
     language |-> a.language, metatype |-> a.metatype,
     elements |-> a.elements]

\* an aggregate_scores that puts the aggregates in front of the rows
aggregate_scores_in_front(scores) ==
    Let(Aggregates(scores, 1, <<>>), LAMBDA aggregates :
        Items(sorted([i \in DOMAIN aggregates |->
                    [key |-> << Codes(order(aggregates[i])) >>,
                     item |-> AggregateRow(aggregates[i])]])) \o scores)

\* Scorer.aggregate_scores: the collection after the call
aggregate_scores(scores) ==
    Let(Aggregates(scores, 1, <<>>), LAMBDA aggregates :
        scores \o Items(sorted([i \in DOMAIN aggregates |->
                    [key |-> << Codes(order(aggregates[i])) >>,
                     item |-> AggregateRow(aggregates[i])]])))

(***************************************************************************)
(* AcrossDocumentsCoreferenceMetricScorer.  queries_to_score is the        *)
(* sequence of query IDs; a dictionary is the sequence of its entries in   *)
(* insertion order.                                                        *)
(***************************************************************************)
Summary == <<"S", "u", "m", "m", "a", "r", "y">>
ALL_Micro == <<"A", "L", "L", "-", "M", "i", "c", "r", "o">>
ALL_Macro == <<"A", "L", "L", "-", "M", "a", "c", "r", "o">>

\* query_id[-n:]
Suffix(str, n) == SubSeq(str, Max({1, Len(str) - n + 1}), Len(str))

\* AcrossDocumentsCoreferenceMetricScorer.get_score
get_score(query_id) == Frac(DigitsVal(Suffix(query_id, 4)), 10000)

\* AcrossDocumentsCoreferenceMetricScorer.get_entity_id
get_entity_id(query_id) == ToStr(DigitsVal(Suffix(query_id, 1)) + 200)

\* aggregate keys that leave the entity of the query out
AggregateKeys_summary_only(query_id) ==
    << Summary \o <<":">> \o ALL_Micro,
       Summary \o <<":">> \o ALL_Micro,
       Summary \o <<":">> \o query_id,
       get_entity_id(query_id) \o <<":">> \o query_id >>

\* the four aggregate keys of a query, in the order of the nested loops
AggregateKeys(query_id) ==
    << Summary \o <<":">> \o ALL_Micro,
       get_entity_id(query_id) \o <<":">> \o ALL_Micro,
       Summary \o <<":">> \o query_id,
       get_entity_id(query_id) \o <<":">> \o query_id >>

\* mean_average_precisions[key] += value; counts[key] += 1
Accumulate(sums, key, value) ==
    IF \E i \in DOMAIN sums : sums[i].key = key
    THEN [i \in DOMAIN sums |->
            IF sums[i].key = key
            THEN [key |-> key, sum |-> FracAdd(sums[i].sum, value),
                  count |-> sums[i].count + 1]
            ELSE sums[i]]
    ELSE Append(sums, [key |-> key, sum |-> value, count |-> 1])

\* the first loop from query i on: the two dictionaries
RECURSIVE QuerySums(_, _, _)
QuerySums(queries, i, sums) ==
    IF i > Len(queries) THEN sums
    ELSE LET k == AggregateKeys(queries[i])
             v == get_score(queries[i])
         IN  QuerySums(queries, i + 1,
                Accumulate(Accumulate(Accumulate(Accumulate(sums,
                    k[1], v), k[2], v), k[3], v), k[4], v))

\* the raw row of a query
QueryRow(query_id) ==
    [query_id |-> query_id, entity_id |-> get_entity_id(query_id),
     average_precision |-> get_score(query_id), summary |-> FALSE]

\* the second loop from the sorted key i on; acc is [scores, macro, count,
\* entity_id_key], entity_id_key being <<>> while the name is unbound
RECURSIVE MeanLoop(_, _, _)
MeanLoop(keyed, i, acc) ==
    IF i > Len(keyed) THEN acc
    ELSE LET parts == Split(keyed[i].key, ":")
             entity_id_key == parts[1]
             query_id_key == parts[2]
             mean == FracDiv(keyed[i].sum, keyed[i].count)
         IN  IF query_id_key # ALL_Micro
             THEN MeanLoop(keyed, i + 1,
                           [acc EXCEPT !.entity_id_key = <<entity_id_key>>])
             ELSE MeanLoop(keyed, i + 1,
                    [scores |-> Append(acc.scores,
                        [query_id |-> query_id_key,
                         entity_id |-> entity_id_key,
                         average_precision |-> mean, summary |-> TRUE]),
                     macro |-> IF entity_id_key # Summary
                               THEN FracAdd(acc.macro, mean) ELSE acc.macro,
                     count |-> IF entity_id_key # Summary
                               THEN acc.count + 1 ELSE acc.count,
                     entity_id_key |-> <<entity_id_key>>])

\* AcrossDocumentsCoreferenceMetricScorer.score_responses; the last row
\* reads entity_id_key, which is unbound when the second loop never ran
AcrossDocuments_score_responses(queries_to_score) ==
    LET sums == QuerySums(queries_to_score, 1, <<>>)
        keyed == Items(sorted([i \in DOMAIN sums |->
                    [key |-> << Codes(sums[i].key) >>, item |-> sums[i]]]))
        acc == MeanLoop(keyed, 1,
                   [scores |-> [i \in DOMAIN queries_to_score |->
                                    QueryRow(queries_to_score[i])],
                    macro |-> Zero, count |-> 0, entity_id_key |-> <<>>])
        printed == Items(sorted([i \in DOMAIN acc.scores |->
                    [key |-> << Codes(acc.scores[i].entity_id),
                                Codes(acc.scores[i].query_id) >>,
                     item |-> acc.scores[i]]]))
    IN  IF acc.entity_id_key = <<>>
        THEN [ret |-> "Raised", entry |-> NoRecord, events |-> <<>>]
        ELSE [ret |-> "Returned",
              entry |-> Append(printed,
                  [query_id |-> ALL_Macro,
                   entity_id |-> acc.entity_id_key[1],
                   average_precision |-> IF acc.count # 0
                                         THEN FracDiv(acc.macro, acc.count)
                                         ELSE Zero,
                   summary |-> TRUE]),
              events |-> <<>>]

\* the query IDs drawn: entities 201, 201, 202, 201
InputQueryIds ==
    {<<"Q", "0", "0", "1", "1">>, <<"Q", "0", "0", "2", "1">>,
     <<"Q", "0", "0", "1", "2">>, <<"Q", "5", "0", "0", "1">>}

InputQueries ==
    {q \in UNION {[1..n -> InputQueryIds] : n \in 0..MaxQueries} :
        \A i, j \in DOMAIN q : i # j => q[i] # q[j]}

(***************************************************************************)
(* ArgumentMetricScorerV1.score_responses.  The frames of a document are   *)
(* given as the sequence of their predicate justifications [role_name,     *)
(* filler_cluster_id, predicate] in the order the nested loops visit them; *)
(* a table that has no entry for a document is a function without that    *)
(* document in its domain.                                                 *)
(***************************************************************************)
\* the two DEFAULT_CRITICAL_ERROR events, with their message
SimilarityZero == "DEFAULT_CRITICAL_ERROR aligned_similarity=0"
UnknownMetatype == "DEFAULT_CRITICAL_ERROR Unknown metatype"

G1 == <<"G", "1">>
G2 == <<"G", "2">>
S1 == <<"S", "1">>
S2 == <<"S", "2">>

\* '.'.join(elements)
RECURSIVE Join_dot(_)
Join_dot(elements) ==
    IF Len(elements) = 0 THEN <<>>
    ELSE IF Len(elements) = 1 THEN elements[1]
    ELSE elements[1] \o <<".">> \o Join_dot(SubSeq(elements, 2, Len(elements)))

\* ArgumentMetricScorerV1.is_valid_slot
is_valid_slot(type_to_codes, slot_name) == slot_name \in type_to_codes

\* the type a predicate justification invokes: the parent of a three-level
\* type when the parent has the role
type_invoked(type_to_codes, predicate, role_name) ==
    LET t == Split(predicate, "_")[1]
        elements == Split(t, ".")
        parent == Join_dot(SubSeq(elements, 1, 2))
    IN  IF Len(elements) = 3
           /\ is_valid_slot(type_to_codes, parent \o <<"_">> \o role_name)
        THEN parent ELSE t

trf(type, role_name, filler_cluster_id) ==
    type \o <<"_">> \o role_name \o <<":">> \o filler_cluster_id

\* the keys of gold_trfs for one document
gold_trfs(in, document_id) ==
    IF document_id \in DOMAIN in.gold_frames
    THEN {trf(type_invoked(in.type_to_codes, j.predicate, j.role_name),
              j.role_name, j.filler_cluster_id) :
            j \in {in.gold_frames[document_id][i] :
                    i \in DOMAIN in.gold_frames[document_id]}}
    ELSE {}

\* the loop over the system justifications with every key carrying the
\* system filler's own ID
RECURSIVE SystemTrfs_own_id(_, _, _, _)
SystemTrfs_own_id(in, document_id, i, acc) ==
    IF acc.raised \/ i > Len(in.system_frames[document_id]) THEN acc
    ELSE LET j == in.system_frames[document_id][i]
         IN  IF \/ document_id \notin DOMAIN in.system_to_gold
                \/ j.filler_cluster_id
                        \notin DOMAIN in.system_to_gold[document_id]
             THEN [acc EXCEPT !.raised = TRUE]
             ELSE SystemTrfs_own_id(in, document_id, i + 1,
                    [acc EXCEPT !.trfs = @ \cup
                        {trf(type_invoked(in.type_to_codes, j.predicate,
                                          j.role_name),
                             j.role_name, j.filler_cluster_id)}])

\* the loop over the system justifications of a document from i on; acc is
\* [trfs, events, raised].  Reading the alignment of a filler raises when
\* the document has no alignment table or the table has no such filler
RECURSIVE SystemTrfs(_, _, _, _)
SystemTrfs(in, document_id, i, acc) ==
    IF acc.raised \/ i > Len(in.system_frames[document_id]) THEN acc
    ELSE LET j == in.system_frames[document_id][i]
         IN  IF \/ document_id \notin DOMAIN in.system_to_gold
                \/ j.filler_cluster_id
                        \notin DOMAIN in.system_to_gold[document_id]
             THEN [acc EXCEPT !.raised = TRUE]
             ELSE LET a == in.system_to_gold[document_id][j.filler_cluster_id]
                      aligned == IF a.aligned_to = None
                                 THEN j.filler_cluster_id ELSE a.aligned_to
                  IN  SystemTrfs(in, document_id, i + 1,
                        [trfs |-> acc.trfs \cup
                            {trf(type_invoked(in.type_to_codes, j.predicate,
                                              j.role_name),
                                 j.role_name, aligned)},
                         events |-> IF aligned # None
                                       /\ a.aligned_similarity = 0
                                    THEN Append(acc.events, SimilarityZero)
                                    ELSE acc.events,
                         raised |-> FALSE])

system_trfs(in, document_id, ev) ==
    IF document_id \in DOMAIN in.system_frames
    THEN SystemTrfs(in, document_id, 1,
                    [trfs |-> {}, events |-> ev, raised |-> FALSE])
    ELSE [trfs |-> {}, events |-> ev, raised |-> FALSE]

\* aida.utility.get_precision_recall_and_f1 on two sets of keys
get_precision_recall_and_f1(gold, system) ==
    LET correct == Cardinality(gold \cap system)
    IN  [precision |-> IF system = {} THEN Zero
                       ELSE Frac(correct, Cardinality(system)),
         recall |-> IF gold = {} THEN Zero
                    ELSE Frac(correct, Cardinality(gold)),
         f1 |-> IF correct = 0 THEN Zero
                ELSE Frac(2 * correct,
                          Cardinality(gold) + Cardinality(system))]

\* the loop over the core documents from i on; acc is [scores, mean_f1,
\* count, events, raised]
RECURSIVE ArgumentLoop(_, _, _)
ArgumentLoop(in, i, acc) ==
    IF acc.raised \/ i > Len(in.core_documents) THEN acc
    ELSE Let(system_trfs(in, in.core_documents[i], acc.events), LAMBDA sys :
         IF sys.raised THEN [acc EXCEPT !.raised = TRUE]
         ELSE LET prf == get_precision_recall_and_f1(
                            gold_trfs(in, in.core_documents[i]), sys.trfs)
              IN  ArgumentLoop(in, i + 1,
                    [scores |-> Append(acc.scores,
                        [document_id |-> in.core_documents[i],
                         precision |-> prf.precision, recall |-> prf.recall,
                         f1 |-> prf.f1, summary |-> FALSE]),
                     mean_f1 |-> FracAdd(acc.mean_f1, prf.f1),
                     count |-> acc.count + 1,
                     events |-> sys.events,
                     raised |-> FALSE]))

ArgumentMetric_score_responses(in) ==
    Let(ArgumentLoop(in, 1, [scores |-> <<>>, mean_f1 |-> Zero, count |-> 0,
                             events |-> <<>>, raised |-> FALSE]),
        LAMBDA acc :
        IF acc.raised
        THEN [ret |-> "Raised", entry |-> NoRecord, events |-> acc.events]
        ELSE [ret |-> "Returned",
              entry |-> Append(acc.scores,
                  [document_id |-> Summary, precision |-> <<>>,
                   recall |-> <<>>,
                   f1 |-> IF acc.count # 0
                          THEN FracDiv(acc.mean_f1, acc.count) ELSE Zero,
                   summary |-> TRUE]),
              events |-> acc.events])

\* the inputs drawn: predicates of a three-level type whose parent has the
\* role, of a two-level type, and of a three-level type whose parent has not
RoleR == <<"R">>
InputPredicates ==
    {<<"A", ".", "B", ".", "C", "_", "R">>, <<"A", ".", "B", "_", "R">>,
     <<"A", ".", "D", ".", "C", "_", "R">>}
InputTypeToCodes == {<<"A", ".", "B", "_", "R">>}

\* a table with an entry for document D1 only, or with none
ForD1(S) == {[d \in {} |-> <<>>]} \cup {[d \in {D1} |-> x] : x \in S}

InputAlignments ==
    UNION {[ids -> [aligned_to : {G1, None}, aligned_similarity : {0, 1}]] :
            ids \in {{S1}, {S1, S2}}}

InputArgumentCases ==
    [core_documents : {<<>>, <<D1>>, <<D1, D2>>},
     gold_frames : ForD1({<<[role_name |-> RoleR, filler_cluster_id |-> G1,
                             predicate |-> p]>> : p \in InputPredicates}),
     system_frames : ForD1(
        {<<[role_name |-> RoleR, filler_cluster_id |-> S1, predicate |-> p]>> :
            p \in InputPredicates}
        \cup
        {<<[role_name |-> RoleR, filler_cluster_id |-> S1, predicate |-> p],
           [role_name |-> RoleR, filler_cluster_id |-> S2, predicate |-> p]>> :
            p \in InputPredicates}),
     system_to_gold : ForD1(InputAlignments),
     type_to_codes : {InputTypeToCodes}]

(***************************************************************************)
(* The type metric scorers.  The input `in` holds core_documents (a        *)
(* sequence), documents (document -> [language]), gold_clusters and        *)
(* system_clusters (document -> cluster ID -> [metatype, types]),          *)
(* gold_to_system and system_to_gold (document -> the alignment entries    *)
(* [id, aligned_to, aligned_similarity] in dictionary order) and           *)
(* type_similarities (document -> <<system, gold>> -> similarity).  A      *)
(* missing key is a value outside the domain.  A loop's accumulator is     *)
(* [scores, events, raised].                                               *)
(***************************************************************************)
NoMetatype == <<>>

\* a get_type_similarity that takes the similarity from the cluster
\* alignment instead of the table of type similarities
get_type_similarity_of_alignment(in, document_id, system_cluster_id, gold_cluster_id) ==
    IF /\ document_id \in DOMAIN in.gold_to_system
       /\ \E i \in DOMAIN in.gold_to_system[document_id] :
            in.gold_to_system[document_id][i].id = gold_cluster_id
    THEN Frac((CHOOSE e \in Range(in.gold_to_system[document_id]) :
                e.id = gold_cluster_id).aligned_similarity, 1)
    ELSE Zero

\* TypeMetricScorerV4.get_type_similarity
get_type_similarity(in, document_id, system_cluster_id, gold_cluster_id) ==
    IF /\ document_id \in DOMAIN in.type_similarities
       /\ <<system_cluster_id, gold_cluster_id>>
            \in DOMAIN in.type_similarities[document_id]
    THEN in.type_similarities[document_id][<<system_cluster_id,
                                             gold_cluster_id>>]
    ELSE Zero

\* one round of the loop of get_metatype: m is [metatype, raised]
MetatypeOf(clusters, document_id, cluster_id, m) ==
    IF m.raised \/ cluster_id = None THEN m
    ELSE IF document_id \notin DOMAIN clusters
    THEN [m EXCEPT !.raised = TRUE]
    ELSE IF cluster_id \notin DOMAIN clusters[document_id] THEN m
    ELSE [m EXCEPT !.metatype = clusters[document_id][cluster_id].metatype]

\* a get_metatype in which the metatype of the system cluster is read last
get_metatype_system_last(in, document_id, system_cluster_id, gold_cluster_id) ==
    LET m == MetatypeOf(in.system_clusters, document_id, system_cluster_id,
                MetatypeOf(in.gold_clusters, document_id, gold_cluster_id,
                           [metatype |-> NoMetatype, raised |-> FALSE]))
    IN  [metatype |-> m.metatype, raised |-> m.raised,
         events |-> IF ~m.raised /\ m.metatype \notin
                        {Event, Relation, Entity, NoMetatype}
                    THEN <<UnknownMetatype>> ELSE <<>>]

\* TypeMetricScorerV4.get_metatype: [metatype, raised, events]
get_metatype(in, document_id, system_cluster_id, gold_cluster_id) ==
    LET m == MetatypeOf(in.gold_clusters, document_id, gold_cluster_id,
                MetatypeOf(in.system_clusters, document_id, system_cluster_id,
                           [metatype |-> NoMetatype, raised |-> FALSE]))
    IN  [metatype |-> m.metatype, raised |-> m.raised,
         events |-> IF ~m.raised /\ m.metatype \notin
                        {Event, Relation, Entity, NoMetatype}
                    THEN <<UnknownMetatype>> ELSE <<>>]

\* the alignment entries of a document ([] when the table has none)
Alignment(table, document_id) ==
    IF document_id \in DOMAIN table THEN table[document_id] ELSE <<>>

TypeRow(document_id, language, metatype, gold_cluster_id, system_cluster_id, value) ==
    [document_id |-> document_id, language |-> language,
     metatype |-> metatype, gold_cluster_id |-> gold_cluster_id,
     system_cluster_id |-> system_cluster_id, value |-> value]

\* TypeMetricScorerV4.score_responses: the loop over gold_to_system
RECURSIVE V4GoldLoop(_, _, _, _, _)
V4GoldLoop(in, document_id, entries, i, acc) ==
    IF acc.raised \/ i > Len(entries) THEN acc
    ELSE IF entries[i].id = None
    THEN V4GoldLoop(in, document_id, entries, i + 1, acc)
    ELSE Let(get_metatype(in, document_id, entries[i].aligned_to,
                          entries[i].id), LAMBDA m :
         IF m.raised THEN [acc EXCEPT !.raised = TRUE]
         ELSE V4GoldLoop(in, document_id, entries, i + 1,
                [scores |-> IF m.metatype \in {Entity, Event}
                            THEN Append(acc.scores,
                                TypeRow(document_id,
                                    in.documents[document_id].language,
                                    m.metatype, entries[i].id,
                                    entries[i].aligned_to,
                                    IF entries[i].aligned_to # None
                                    THEN get_type_similarity(in, document_id,
                                            entries[i].aligned_to,
                                            entries[i].id)
                                    ELSE Zero))
                            ELSE acc.scores,
                 events |-> acc.events \o m.events,
                 raised |-> FALSE]))

\* TypeMetricScorerV4.score_responses: the loop over system_to_gold
RECURSIVE V4SystemLoop(_, _, _, _, _)
V4SystemLoop(in, document_id, entries, i, acc) ==
    IF acc.raised \/ i > Len(entries) THEN acc
    ELSE IF entries[i].id = None
    THEN V4SystemLoop(in, document_id, entries, i + 1, acc)
    ELSE Let(get_metatype(in, document_id, entries[i].id,
                          entries[i].aligned_to), LAMBDA m :
         IF m.raised THEN [acc EXCEPT !.raised = TRUE]
         ELSE IF m.metatype \notin {Entity, Event}
         THEN V4SystemLoop(in, document_id, entries, i + 1,
                           [acc EXCEPT !.events = @ \o m.events])
         ELSE V4SystemLoop(in, document_id, entries, i + 1,
                [scores |-> IF entries[i].aligned_to = None
                            THEN Append(acc.scores,
                                TypeRow(document_id,
                                    in.documents[document_id].language,
                                    m.metatype, entries[i].aligned_to,
                                    entries[i].id, Zero))
                            ELSE acc.scores,
                 events |-> IF entries[i].aligned_to # None
                               /\ entries[i].aligned_similarity = 0
                            THEN acc.events \o m.events \o <<SimilarityZero>>
                            ELSE acc.events \o m.events,
                 raised |-> FALSE]))

\* the loop over the core documents; a core document without an entry in
\* `documents` is skipped
RECURSIVE V4DocumentLoop(_, _, _)
V4DocumentLoop(in, i, acc) ==
    IF acc.raised \/ i > Len(in.core_documents) THEN acc
    ELSE IF in.core_documents[i] \notin DOMAIN in.documents
    THEN V4DocumentLoop(in, i + 1, acc)
    ELSE V4DocumentLoop(in, i + 1,
            V4SystemLoop(in, in.core_documents[i],
                Alignment(in.system_to_gold, in.core_documents[i]), 1,
                V4GoldLoop(in, in.core_documents[i],
                    Alignment(in.gold_to_system, in.core_documents[i]), 1,
                    acc)))

\* the rows left in the order in which the loops appended them
SortedRows_as_appended(scores) == scores

\* multisort(scores, document_id, metatype, gold_cluster_id,
\* system_cluster_id), all ascending
SortedRows(scores) ==
    Items(sorted([i \in DOMAIN scores |->
        [key |-> << Codes(scores[i].document_id), Codes(scores[i].metatype),
                    Codes(scores[i].gold_cluster_id),
                    Codes(scores[i].system_cluster_id) >>,
         item |-> scores[i]]]))

\* what a score_responses leaves: the collection stored, or the exception
Stored(acc) ==
    IF acc.raised
    THEN [ret |-> "Raised", entry |-> NoRecord, events |-> acc.events]
    ELSE [ret |-> "Returned",
          entry |-> aggregate_scores(SortedRows(acc.scores)),
          events |-> acc.events]

TypeMetricV4_score_responses(in) ==
    Let(V4DocumentLoop(in, 1,
            [scores |-> <<>>, events |-> <<>>, raised |-> FALSE]),
        LAMBDA acc : Stored(acc))

\* Scorer.get_cluster: <<>> is None
get_cluster(clusters, document_id, cluster_id) ==
    IF /\ document_id \in DOMAIN clusters
       /\ cluster_id \in DOMAIN clusters[document_id]
    THEN <<clusters[document_id][cluster_id]>>
    ELSE <<>>

\* TypeMetricScorerV2.get_augmented_types with every type annotated for
\* the document: the types with their entries
get_augmented_types(types) == types

\* TypeMetricScorerV2.score_responses, lines 98-112: the score of an aligned
\* pair; [value, events, raised]
V2AlignedScore(in, document_id, e, gold_cluster, ev) ==
    Let(get_cluster(in.system_clusters, document_id, e.aligned_to),
        LAMBDA system_cluster :
        IF system_cluster = <<>>
        THEN [value |-> Zero, raised |-> TRUE,
              events |-> IF e.aligned_similarity = 0
                         THEN Append(ev, SimilarityZero) ELSE ev]
        ELSE Let(get_average_precision(
                    {get_augmented_types(gold_cluster.types)[k].type :
                        k \in DOMAIN gold_cluster.types},
                    get_augmented_types(system_cluster[1].types)),
             LAMBDA ap :
             [value |-> ap.entry, raised |-> FALSE,
              events |->
                (IF e.aligned_similarity = 0
                 THEN Append(ev, SimilarityZero) ELSE ev)
                \o (IF system_cluster[1].metatype # gold_cluster.metatype
                    THEN <<"UNEXPECTED_ALIGNED_CLUSTER_METATYPE">> ELSE <<>>)
                \o <<"TYPE_METRIC_SCORE_INFO", "TYPE_METRIC_SCORE_INFO">>
                \o ap.events]))

\* TypeMetricScorerV2.score_responses: the loop over gold_to_system
RECURSIVE V2GoldLoop(_, _, _, _, _)
V2GoldLoop(in, document_id, entries, i, acc) ==
    IF acc.raised \/ i > Len(entries) THEN acc
    ELSE IF entries[i].id = None
    THEN V2GoldLoop(in, document_id, entries, i + 1, acc)
    ELSE IF \/ document_id \notin DOMAIN in.gold_clusters
            \/ entries[i].id \notin DOMAIN in.gold_clusters[document_id]
    THEN [acc EXCEPT !.raised = TRUE]
    ELSE Let(in.gold_clusters[document_id][entries[i].id],
         LAMBDA gold_cluster :
         IF gold_cluster.metatype \notin {Entity, Event}
         THEN V2GoldLoop(in, document_id, entries, i + 1, acc)
         ELSE IF entries[i].aligned_to = None
         THEN V2GoldLoop(in, document_id, entries, i + 1,
                [acc EXCEPT !.scores = Append(@,
                    TypeRow(document_id, in.documents[document_id].language,
                            gold_cluster.metatype, entries[i].id,
                            entries[i].aligned_to, Zero))])
         ELSE Let(V2AlignedScore(in, document_id, entries[i], gold_cluster,
                                 acc.events),
              LAMBDA sc :
              IF sc.raised
              THEN [scores |-> acc.scores, events |-> sc.events,
                    raised |-> TRUE]
              ELSE V2GoldLoop(in, document_id, entries, i + 1,
                    [scores |-> Append(acc.scores,
                        TypeRow(document_id,
                                in.documents[document_id].language,
                                gold_cluster.metatype, entries[i].id,
                                entries[i].aligned_to, sc.value)),
                     events |-> sc.events,
                     raised |-> FALSE])))

\* TypeMetricScorerV2.score_responses: the loop over system_to_gold
RECURSIVE V2SystemLoop(_, _, _, _, _)
V2SystemLoop(in, document_id, entries, i, acc) ==
    IF acc.raised \/ i > Len(entries) THEN acc
    ELSE IF entries[i].id = None
    THEN V2SystemLoop(in, document_id, entries, i + 1, acc)
    ELSE IF \/ document_id \notin DOMAIN in.system_clusters
            \/ entries[i].id \notin DOMAIN in.system_clusters[document_id]
    THEN [acc EXCEPT !.raised = TRUE]
    ELSE Let(in.system_clusters[document_id][entries[i].id].metatype,
         LAMBDA metatype :
         IF metatype \notin {Entity, Event}
         THEN V2SystemLoop(in, document_id, entries, i + 1, acc)
         ELSE V2SystemLoop(in, document_id, entries, i + 1,
                [scores |-> IF entries[i].aligned_to = None
                            THEN Append(acc.scores,
                                TypeRow(document_id,
                                    in.documents[document_id].language,
                                    metatype, entries[i].aligned_to,
                                    entries[i].id, Zero))
                            ELSE acc.scores,
                 events |-> IF entries[i].aligned_to # None
                               /\ entries[i].aligned_similarity = 0
                            THEN Append(acc.events, SimilarityZero)
                            ELSE acc.events,
                 raised |-> FALSE]))

\* the loop over the core documents; reading the language of a core
\* document without an entry in `documents` raises
RECURSIVE V2DocumentLoop(_, _, _)
V2DocumentLoop(in, i, acc) ==
    IF acc.raised \/ i > Len(in.core_documents) THEN acc
    ELSE IF in.core_documents[i] \notin DOMAIN in.documents
    THEN [acc EXCEPT !.raised = TRUE]
    ELSE V2DocumentLoop(in, i + 1,
            V2SystemLoop(in, in.core_documents[i],
                Alignment(in.system_to_gold, in.core_documents[i]), 1,
                V2GoldLoop(in, in.core_documents[i],
                    Alignment(in.gold_to_system, in.core_documents[i]), 1,
                    [acc EXCEPT !.events =
                        Append(@, "ANNOTATED_TYPES_INFO")])))

TypeMetricV2_score_responses(in) ==
    Let(V2DocumentLoop(in, 1,
            [scores |-> <<>>, events |-> <<>>, raised |-> FALSE]),
        LAMBDA acc : Stored(acc))

(***************************************************************************)
(* The inputs of the type metric scorers: document D1 with at most one     *)
(* gold cluster G1 and one system cluster S1, D2 being a core document     *)
(* the corpus does not know.                                               *)
(***************************************************************************)
ENG == <<"E", "N", "G">>
Other == <<"O", "t", "h", "e", "r">>

\* the cluster table of one side: no entry for D1, an entry without the
\* cluster, or the cluster with one of the metatypes
InputClusters(id, types) ==
    ForD1({[c \in {} |-> <<>>]}
          \cup {[c \in {id} |-> [metatype |-> m, types |-> types]] :
                    m \in {Entity, Event, Relation, Other}})

\* the alignment table of one side: no entry for D1, or one entry
InputAlignmentTables(id, other) ==
    ForD1({<<[id |-> id, aligned_to |-> other, aligned_similarity |-> 0]>>,
           <<[id |-> id, aligned_to |-> other, aligned_similarity |-> 1]>>,
           <<[id |-> id, aligned_to |-> None, aligned_similarity |-> 0]>>})

InputTypeCases ==
    [core_documents : {<<>>, <<D1>>, <<D1, D2>>},
     documents : {[d \in {D1} |-> [language |-> ENG]]},
     gold_clusters : InputClusters(G1,
        <<[type |-> TypeA, entries |-> <<"m1">>],
          [type |-> TypeB, entries |-> <<"m1">>]>>),
     system_clusters : InputClusters(S1,
        <<[type |-> TypeC, entries |-> <<"m1", "m2">>],
          [type |-> TypeA, entries |-> <<"m1">>]>>),
     gold_to_system : InputAlignmentTables(G1, S1),
     system_to_gold : InputAlignmentTables(S1, G1),
     type_similarities :
        ForD1({[q \in {} |-> Zero], [q \in {<<S1, G1>>} |-> Frac(1, 2)]})]

\* the alignments of the clusters G1, G2 of the gold side with the clusters
\* S1, S2 of the system side, each side naming the cluster of the other side
\* it is aligned to
Matching(g1, g2, s1, s2) ==
    [c \in {G1, G2, S1, S2} |->
        IF c = G1 THEN g1 ELSE IF c = G2 THEN g2
        ELSE IF c = S1 THEN s1 ELSE s2]

InputMatchings ==
    {Matching(S1, S2, G1, G2), Matching(S1, None, G1, None),
     Matching(None, None, None, None), Matching(S2, S1, G2, G1)}

\* an entry of an alignment table
AlignedEntry(id, aligned_to) ==
    [id |-> id, aligned_to |-> aligned_to,
     aligned_similarity |-> IF aligned_to = None THEN 0 ELSE 1]

\* the tables of similarities of document D1: every pair tabled, or the
\* pair (S1, G1) only
InputSimilarityTables ==
    {[q \in {<<S1, G1>>, <<S1, G2>>, <<S2, G1>>, <<S2, G2>>} |->
        IF q = <<S1, G1>> THEN Frac(1, 2)
        ELSE IF q = <<S1, G2>> THEN Frac(1, 1)
        ELSE IF q = <<S2, G1>> THEN Frac(1, 3)
        ELSE Frac(1, 4)],
     [q \in {<<S1, G1>>} |-> Frac(1, 2)]}

\* the second known document D9, its language 'en': without clusters, or
\* with an unaligned gold cluster and an unaligned system cluster
InputSecondDocuments ==
    {[gold |-> <<>>, system |-> <<>>],
     [gold |-> <<AlignedEntry(G1, None)>>,
      system |-> <<AlignedEntry(S1, None)>>]}

\* inputs with two documents and two clusters on each side: the core
\* documents and the entries of the tables of D1 come in an order that is
\* not the sorted one
InputTypeCasesOfTwo ==
    {[core_documents |-> <<D9, D1>>,
      documents |-> [d \in {D1, D9} |->
            [language |-> IF d = D1 THEN ENG ELSE <<"e", "n">>]],
      gold_clusters |-> [d \in {D1, D9} |->
            IF d = D1
            THEN [c \in {G1, G2} |->
                    [metatype |-> IF c = G1 THEN mt[1] ELSE mt[2],
                     types |-> <<>>]]
            ELSE [c \in {G1} |-> [metatype |-> Entity, types |-> <<>>]]],
      system_clusters |-> [d \in {D1, D9} |->
            IF d = D1
            THEN [c \in {S1, S2} |->
                    [metatype |-> IF c = S1 THEN mt[3] ELSE mt[4],
                     types |-> <<>>]]
            ELSE [c \in {S1} |-> [metatype |-> Event, types |-> <<>>]]],
      gold_to_system |-> [d \in {D1, D9} |->
            IF d = D1
            THEN <<AlignedEntry(G2, m[G2]), AlignedEntry(G1, m[G1])>>
            ELSE second.gold],
      system_to_gold |-> [d \in {D1, D9} |->
            IF d = D1
            THEN <<AlignedEntry(S2, m[S2]), AlignedEntry(S1, m[S1])>>
            ELSE second.system],
      type_similarities |-> [d \in {D1} |-> sim]] :
        mt \in {Entity, Event, Relation} \X {Entity, Event, Relation}
                \X {Entity, Relation} \X {Event, Relation},
        m \in InputMatchings, sim \in InputSimilarityTables,
        second \in InputSecondDocuments}

\* the languages and metatypes of the rows drawn
InputLanguages == {<<"e", "n">>, <<"E", "N", "G">>, ALL}
InputMetatypes == {Entity, Event, ALL}

\* the score collections handed to aggregate_scores: up to MaxRows rows, row
\* i being the score of document D<i>
InputScores ==
    UNION {{[i \in 1..n |-> [document_id |-> <<"D">> \o ToStr(i),
                              language |-> l[i], metatype |-> m[i]]] :
                l \in [1..n -> InputLanguages], m \in [1..n -> InputMetatypes]} :
           n \in 0..MaxRows}

(***************************************************************************)
(* The scorer operations as steps: one call of an operation on inputs      *)
(* drawn, then NextRecord.                                                 *)
(***************************************************************************)
GetAveragePrecision ==
    /\ method = "none"
    /\ \E g \in SUBSET GoldTypeNames, sys \in InputSystemTypes :
        Apply("get_average_precision", [gold |-> g, system |-> sys],
              get_average_precision(g, sys))

AggregateScores ==
    /\ method = "none"
    /\ \E scores \in InputScores :
        Apply("aggregate_scores", [scores |-> scores],
              [ret |-> "Returned", entry |-> aggregate_scores(scores),
               events |-> <<>>])

AcrossDocumentsScoreResponses ==
    /\ method = "none"
    /\ \E q \in InputQueries :
        Apply("AcrossDocumentsCoreferenceMetricScorer.score_responses",
              [queries_to_score |-> q], AcrossDocuments_score_responses(q))

ArgumentMetricScoreResponses ==
    /\ method = "none"
    /\ \E in \in InputArgumentCases :
        Apply("ArgumentMetricScorerV1.score_responses", in,
              ArgumentMetric_score_responses(in))

TypeMetricV4ScoreResponses ==
    /\ method = "none"
    /\ \E in \in InputTypeCases \cup InputTypeCasesOfTwo :
        Apply("TypeMetricScorerV4.score_responses", in,
              TypeMetricV4_score_responses(in))

TypeMetricV2ScoreResponses ==
    /\ method = "none"
    /\ \E in \in InputTypeCases :
        Apply("TypeMetricScorerV2.score_responses", in,
              TypeMetricV2_score_responses(in))

ScorerNext ==
    \/ GetAveragePrecision
    \/ TypeMetricV4ScoreResponses
    \/ TypeMetricV2ScoreResponses
    \/ ArgumentMetricScoreResponses
    \/ AcrossDocumentsScoreResponses
    \/ AggregateScores
    \/ NextRecord

ScorerSpec == Init /\ [][ScorerNext]_vars

(***************************************************************************)
(* ScoresManager and the life of a scorer.  The constructor of a scorer    *)
(* stores its arguments and then calls score_responses, which stores the   *)
(* scores; the steps are the calls and returns on the way.                 *)
(***************************************************************************)
\* ScoresManager.task_metrics: the metrics of a task in dictionary order
task_metrics ==
    [task \in {"task1", "task2", "task3"} |->
        IF task = "task1"
        THEN <<"ArgumentMetricV3A1", "ArgumentMetricV3A2",
               "ArgumentMetricV3B1", "ArgumentMetricV3B2",
               "ArgumentMetricV3C1", "ArgumentMetricV3C2",
               "CoreferenceMetric", "FrameMetric", "TemporalMetric",
               "NegationMetricV1", "NegationMetricV2", "TypeMetricV4">>
        ELSE IF task = "task2"
        THEN <<"AcrossDocumentsCoreferenceMetricV2">>
        ELSE <<"F1ScorerV1A", "F1ScorerV2A", "F1ScorerV1B", "F1ScorerV2B",
               "F1ScorerV1C", "F1ScorerV2C", "NDCGScorerV1", "NDCGScorerV2">>]

\* the responses handed to the manager: a run whose tables agree, and one
\* whose alignment names system clusters of a document that has none
InputManagerResponses ==
    {in \in InputTypeCases :
        /\ in.core_documents = <<D1>>
        /\ D1 \in DOMAIN in.gold_clusters /\ G1 \in DOMAIN in.gold_clusters[D1]
        /\ in.gold_clusters[D1][G1].metatype = Entity
        /\ D1 \in DOMAIN in.gold_to_system
        /\ in.gold_to_system[D1][1].aligned_to = S1
        /\ in.gold_to_system[D1][1].aligned_similarity = 1
        /\ D1 \notin DOMAIN in.system_to_gold
        /\ D1 \in DOMAIN in.type_similarities
        /\ <<S1, G1>> \in DOMAIN in.type_similarities[D1]
        /\ D1 \in DOMAIN in.system_clusters
            => /\ S1 \in DOMAIN in.system_clusters[D1]
               /\ in.system_clusters[D1][S1].metatype = Entity}

\* what score_responses of the scorer of a metric does with the stored
\* arguments; of the registered classes only TypeMetricScorerV4 is known
ScoreOutcome(metric, kwargs) ==
    IF metric = "TypeMetricV4"
    THEN TypeMetricV4_score_responses(kwargs.responses)
    ELSE [ret |-> "Returned",
          entry |-> <<[metric |-> metric, run_id |-> kwargs.run_id]>>,
          events |-> <<>>]

\* ScoresManager.__init__ up to its call of score_responses
NewScoresManager ==
    /\ manager = NoRecord
    /\ \E task \in DOMAIN task_metrics, run_id \in {"run1", "run2"},
          in \in InputManagerResponses :
        manager' = [pc |-> "score_responses", task |-> task,
                    arguments |-> [run_id |-> run_id, responses |-> in],
                    metrics |-> task_metrics[task], scores |-> <<>>,
                    printed |-> 0, cursor |-> 0, separator |-> "none"]
    /\ UNCHANGED <<method, args, entry, ret, events, event_args, scorers, process>>

\* the metric whose scorer the loop of ScoresManager.score_responses is at
Current == Len(manager.scores) + 1

\* Scorer.__init__, lines 20-22: the instance with its arguments stored
NewScorer ==
    /\ manager # NoRecord /\ manager.pc = "score_responses"
    /\ Current <= Len(manager.metrics)
    /\ Len(scorers) < Current
    /\ scorers' = Append(scorers,
            [metric |-> manager.metrics[Current],
             kwargs |-> manager.arguments, phase |-> "constructed",
             calls |-> 0, scores |-> <<>>, separator |-> "none"])
    /\ UNCHANGED <<method, args, entry, ret, events, event_args, manager, process>>

\* print_scores that scores again before printing
ScorerPrintScores_rescoring ==
    /\ manager # NoRecord /\ manager.pc = "print_scores"
    /\ manager.cursor <= Len(manager.scores)
    /\ scorers' = [scorers EXCEPT ![manager.scores[manager.cursor].value] =
            [@ EXCEPT !.separator = manager.separator,
                      !.calls = @ + 1]]
    /\ manager' = IF manager.separator = "pretty"
                  THEN [manager EXCEPT !.separator = "tab"]
                  ELSE [manager EXCEPT !.separator = "pretty",
                                       !.cursor = @ + 1]
    /\ UNCHANGED <<method, args, entry, ret, events, event_args, process>>

\* Scorer.__init__, line 23: score_responses is called
ScoreResponsesCall ==
    /\ manager # NoRecord /\ manager.pc = "score_responses"
    /\ Len(scorers) = Current
    /\ scorers[Current].phase = "constructed"
    /\ scorers' = [scorers EXCEPT ![Current] =
            [@ EXCEPT !.phase = "scoring", !.calls = @ + 1]]
    /\ UNCHANGED <<method, args, entry, ret, events, event_args, manager, process>>

\* score_responses stores the scores and returns; the constructor returns
\* and the manager adds the scorer under the name of the metric
ScoreResponsesReturn ==
    /\ manager # NoRecord /\ manager.pc = "score_responses"
    /\ Len(scorers) = Current
    /\ scorers[Current].phase = "scoring"
    /\ \E o \in {ScoreOutcome(scorers[Current].metric,
                              scorers[Current].kwargs)} :
        /\ o.ret = "Returned"
        /\ scorers' = [scorers EXCEPT ![Current] =
                [@ EXCEPT !.phase = "scored", !.scores = <<o.entry>>]]
        /\ manager' = [manager EXCEPT !.scores =
                Append(@, [key |-> scorers[Current].metric,
                           value |-> Current])]
    /\ UNCHANGED <<method, args, entry, ret, events, event_args, process>>

\* score_responses raises: the exception leaves both constructors
ScoreResponsesRaise ==
    /\ manager # NoRecord /\ manager.pc = "score_responses"
    /\ Len(scorers) = Current
    /\ scorers[Current].phase = "scoring"
    /\ ScoreOutcome(scorers[Current].metric, scorers[Current].kwargs).ret
            = "Raised"
    /\ manager' = [manager EXCEPT !.pc = "raised"]
    /\ UNCHANGED <<method, args, entry, ret, events, event_args, scorers, process>>

\* ScoresManager.score_responses and the constructor return
ManagerConstructed ==
    /\ manager # NoRecord /\ manager.pc = "score_responses"
    /\ Current > Len(manager.metrics)
    /\ manager' = [manager EXCEPT !.pc = "constructed"]
    /\ UNCHANGED <<method, args, entry, ret, events, event_args, scorers, process>>

\* ScoresManager.print_scores is called with a new output directory
ManagerPrintScores ==
    /\ manager # NoRecord /\ manager.pc = "constructed"
    /\ manager.printed < MaxPrints
    /\ manager' = [manager EXCEPT !.pc = "print_scores", !.cursor = 1,
                                  !.separator = "pretty"]
    /\ UNCHANGED <<method, args, entry, ret, events, event_args, scorers, process>>

\* Scorer.print_scores of the scorer the loop is at: the separator of its
\* score collection is set and the collection written
ScorerPrintScores ==
    /\ manager # NoRecord /\ manager.pc = "print_scores"
    /\ manager.cursor <= Len(manager.scores)
    /\ scorers' = [scorers EXCEPT ![manager.scores[manager.cursor].value] =
            [@ EXCEPT !.separator = manager.separator]]
    /\ manager' = IF manager.separator = "pretty"
                  THEN [manager EXCEPT !.separator = "tab"]
                  ELSE [manager EXCEPT !.separator = "pretty",
                                       !.cursor = @ + 1]
    /\ UNCHANGED <<method, args, entry, ret, events, event_args, process>>

\* ScoresManager.print_scores returns
ManagerPrinted ==
    /\ manager # NoRecord /\ manager.pc = "print_scores"
    /\ manager.cursor > Len(manager.scores)
    /\ manager' = [manager EXCEPT !.pc = "constructed", !.printed = @ + 1]
    /\ UNCHANGED <<method, args, entry, ret, events, event_args, scorers, process>>

ManagerNext ==
    \/ NewScoresManager
    \/ NewScorer
    \/ ScoreResponsesCall
    \/ ScoreResponsesReturn
    \/ ScoreResponsesRaise
    \/ ManagerConstructed
    \/ ManagerPrintScores
    \/ ScorerPrintScores
    \/ ManagerPrinted

ManagerSpec == Init /\ [][ManagerNext]_vars

(***************************************************************************)
(* The script validate_responses.py (src/python/validate_responses.py).    *)
(* The logger, the corpus loaders and ResponseSet are other modules of the *)
(* package: the logger is a list of events whose severity the log          *)
(* specifications give, a loader or ResponseSet is a step during which     *)
(* events are recorded.                                                    *)
(***************************************************************************)
ALLOK_EXIT_CODE == 0
ERROR_EXIT_CODE == 255

\* bound: the number of events recorded while the responses are loaded
MaxLogged == 3

\* check_path, lines 29-37: the paths that have to exist, in this order
RequiredPaths_without_input ==
    <<"log_specifications", "encodings", "core_documents",
      "parent_children", "sentence_boundaries", "image_boundaries",
      "keyframe_boundaries", "video_boundaries">>

RequiredPaths ==
    <<"log_specifications", "encodings", "core_documents",
      "parent_children", "sentence_boundaries", "image_boundaries",
      "keyframe_boundaries", "video_boundaries", "input">>

\* check_path, line 38: the paths that must not exist
ForbiddenPaths == <<"output">>

\* the severity that the log specifications give to a code
LogSpecifications ==
    [DEFAULT_INFO |-> "INFO",
     SPAN_OFF_BOUNDARY_CORRECTED |-> "WARNING",
     INVALID_CONFIDENCE |-> "WARNING",
     INVALID_DATE |-> "ERROR",
     UNKNOWN_ITEM |-> "ERROR"]

RECURSIVE CountOf(_, _)
CountOf(logged, type) ==
    IF logged = <<>> THEN 0
    ELSE (IF LogSpecifications[Head(logged)] = type THEN 1 ELSE 0)
         + CountOf(Tail(logged), type)

\* Logger.get_stats: the numbers of warnings and of errors recorded
get_stats(logger) ==
    [num_warnings |-> CountOf(logger.events, "WARNING"),
     num_errors |-> CountOf(logger.events, "ERROR")]

\* validate_responses, lines 78-80, with a status that warnings change too
ExitStatus_counting_warnings(num_warnings, num_errors) ==
    IF num_errors + num_warnings > 0 THEN ERROR_EXIT_CODE
    ELSE ALLOK_EXIT_CODE

\* validate_responses, lines 78-80
ExitStatus(num_warnings, num_errors) ==
    IF num_errors > 0 THEN ERROR_EXIT_CODE ELSE ALLOK_EXIT_CODE

\* the states of the file system a run can start in
InputFileSystems == SUBSET (Range(RequiredPaths) \cup Range(ForbiddenPaths))

\* lines 83-99: the arguments are parsed; check_path is entered
Main ==
    /\ process = NoRecord
    /\ \E fs \in InputFileSystems, queries \in {"None", "queries"} :
        process' = [pc |-> "check_for_paths_existance", i |-> 1,
                    started_with |-> fs, exists |-> fs,
                    queries |-> queries, logger |-> NoRecord,
                    loaded |-> {}, written |-> FALSE,
                    printed |-> <<>>, status |-> "running"]
    /\ UNCHANGED <<method, args, entry, ret, events, event_args, manager,
                   scorers>>

\* exit(code): the process ends with this status
Exit(code) == [process EXCEPT !.pc = "exited", !.status = code]

\* check_for_paths_existance, lines 41-44: one path of the list
CheckForPathsExistance ==
    /\ process # NoRecord /\ process.pc = "check_for_paths_existance"
    /\ process' =
        IF process.i > Len(RequiredPaths)
        THEN [process EXCEPT !.pc = "check_for_paths_non_existance",
                             !.i = 1]
        ELSE IF RequiredPaths[process.i] \notin process.exists
        THEN [Exit(ERROR_EXIT_CODE) EXCEPT !.printed =
                    <<"does not exist", RequiredPaths[process.i]>>]
        ELSE [process EXCEPT !.i = @ + 1]
    /\ UNCHANGED <<method, args, entry, ret, events, event_args, manager,
                   scorers>>

\* check_for_paths_non_existance, lines 47-50: one path of the list
CheckForPathsNonExistance ==
    /\ process # NoRecord /\ process.pc = "check_for_paths_non_existance"
    /\ process' =
        IF process.i > Len(ForbiddenPaths)
        THEN [process EXCEPT !.pc = "validate_responses"]
        ELSE IF ForbiddenPaths[process.i] \in process.exists
        THEN [Exit(ERROR_EXIT_CODE) EXCEPT !.printed =
                    <<"exists", ForbiddenPaths[process.i]>>]
        ELSE [process EXCEPT !.i = @ + 1]
    /\ UNCHANGED <<method, args, entry, ret, events, event_args, manager,
                   scorers>>

\* validate_responses, lines 53-55: the logger is created and records that
\* the validation started
NewLogger ==
    /\ process # NoRecord /\ process.pc = "validate_responses"
    /\ process' = [process EXCEPT !.pc = "load",
                     !.logger = [events |-> <<"DEFAULT_INFO">>],
                     !.exists = @ \cup {"log"}]
    /\ UNCHANGED <<method, args, entry, ret, events, event_args, manager,
                   scorers>>

\* lines 56-71: the corpus files, and the queries when given, are loaded
LoadCorpus ==
    /\ process # NoRecord /\ process.pc = "load"
    /\ process' = [process EXCEPT !.pc = "ResponseSet",
                     !.loaded = {"encodings", "core_documents",
                                 "parent_children", "sentence_boundaries",
                                 "image_boundaries", "video_boundaries",
                                 "keyframe_boundaries"}
                                \cup (IF process.queries = "None" THEN {}
                                      ELSE {"queries"})]
    /\ UNCHANGED <<method, args, entry, ret, events, event_args, manager,
                   scorers>>

\* line 72, ResponseSet being constructed: a validation rule records an
\* event
RecordEvent ==
    /\ process # NoRecord /\ process.pc = "ResponseSet"
    /\ Len(process.logger.events) <= MaxLogged
    /\ \E code \in DOMAIN LogSpecifications \ {"DEFAULT_INFO"} :
        process' = [process EXCEPT !.logger.events = Append(@, code),
                                   !.loaded = @ \cup {"input"}]
    /\ UNCHANGED <<method, args, entry, ret, events, event_args, manager,
                   scorers>>

\* line 72 returns: the responses are loaded and validated
ResponsesValidated ==
    /\ process # NoRecord /\ process.pc = "ResponseSet"
    /\ process' = [process EXCEPT !.pc = "write_valid_responses",
                                  !.loaded = @ \cup {"input"}]
    /\ UNCHANGED <<method, args, entry, ret, events, event_args, manager,
                   scorers>>

\* line 72 does not return: an exception of a validation rule is caught
\* nowhere in the script, and the interpreter exits with status 1
ValidationRaises ==
    /\ process # NoRecord /\ process.pc = "ResponseSet"
    /\ process' = [Exit(1) EXCEPT
                        !.loaded = @ \cup {"input"}]
    /\ UNCHANGED <<method, args, entry, ret, events, event_args, manager,
                   scorers>>

\* line 73: the valid responses are written to the output path
WriteValidResponses ==
    /\ process # NoRecord /\ process.pc = "write_valid_responses"
    /\ process' = [process EXCEPT !.pc = "get_stats", !.written = TRUE,
                                  !.exists = @ \cup {"output"}]
    /\ UNCHANGED <<method, args, entry, ret, events, event_args, manager,
                   scorers>>

\* lines 74-80: the counts are read, the closing message is recorded and
\* printed, and the process exits
Finish ==
    /\ process # NoRecord /\ process.pc = "get_stats"
    /\ \E stats \in {get_stats(process.logger)} :
        process' = [Exit(ExitStatus(stats.num_warnings, stats.num_errors))
                    EXCEPT !.logger.events = Append(@, "DEFAULT_INFO"),
                           !.printed = <<"validation finished",
                                         stats.num_warnings,
                                         stats.num_errors>>]
    /\ UNCHANGED <<method, args, entry, ret, events, event_args, manager,
                   scorers>>

MainNext ==
    \/ Main
    \/ CheckForPathsExistance
    \/ CheckForPathsNonExistance
    \/ NewLogger
    \/ LoadCorpus
    \/ RecordEvent
    \/ ResponsesValidated
    \/ ValidationRaises
    \/ WriteValidResponses
    \/ Finish

MainSpec == Init /\ [][MainNext]_vars

(***************************************************************************)
(* The end of a score_responses: the scorer under construction has added   *)
(* its sorted rows to a new ScorePrinter, hands it to aggregate_scores and *)
(* stores it.  An earlier scorer of the same manager holds its own         *)
(* collection; both scorers hold the same responses.                       *)
(***************************************************************************)
\* the arguments the scorers of a manager share
SharedArguments ==
    [run_id |-> "run1", gold_responses |-> "gold responses",
     system_responses |-> "system responses"]

\* the collections of the earlier scorer
InputOtherCollections ==
    {<<>>, aggregate_scores(<<[document_id |-> D1, language |-> ENG,
                               metatype |-> Entity]>>)}

\* type_metric_v4_scorer.py, lines 105-110: the rows are in the new
\* collection `scores_printer`
RowsAdded ==
    /\ method = "none"
    /\ \E rows \in InputScores, other \in InputOtherCollections :
        /\ method' = "scores_printer.add"
        /\ entry' = rows
        /\ scorers' =
            << [metric |-> "CoreferenceMetric", kwargs |-> SharedArguments,
                phase |-> "scored", calls |-> 1, scores |-> <<other>>,
                separator |-> "none"],
               [metric |-> "TypeMetricV4", kwargs |-> SharedArguments,
                phase |-> "scoring", calls |-> 1, scores |-> <<>>,
                separator |-> "none"] >>
    /\ args' = [scores |-> entry']
    /\ UNCHANGED <<ret, events, event_args, manager, process>>

\* line 111, Scorer.aggregate_scores on that collection
AggregateCollection ==
    /\ method = "scores_printer.add"
    /\ method' = "aggregate_scores"
    /\ entry' = aggregate_scores(entry)
    /\ ret' = "Returned"
    /\ UNCHANGED <<args, events, event_args, manager, scorers, process>>

\* line 112: the collection is stored in the scorer
StoreCollection ==
    /\ method = "aggregate_scores" /\ scorers # <<>>
    /\ scorers[2].phase = "scoring"
    /\ scorers' = [scorers EXCEPT ![2] =
            [@ EXCEPT !.phase = "scored", !.scores = <<entry>>]]
    /\ UNCHANGED <<method, args, entry, ret, events, event_args, manager,
                   process>>

\* the next construction starts from nothing
NextConstruction ==
    /\ method = "aggregate_scores" /\ scorers # <<>>
    /\ scorers[2].phase = "scored"
    /\ method' = "none" /\ args' = NoRecord /\ entry' = NoRecord
    /\ ret' = "none" /\ scorers' = <<>>
    /\ UNCHANGED <<events, event_args, manager, process>>

AggregationNext ==
    \/ RowsAdded
    \/ AggregateCollection
    \/ StoreCollection
    \/ NextConstruction

AggregationSpec == Init /\ [][AggregationNext]_vars

(***************************************************************************)
(* AIFProjections.compare_cluster_members and                              *)
(* compare_cluster_generic_status (src/python/                             *)
(* verify_aif_against_annotations.py).  The projection is the sequence of  *)
(* the entries [cluster, member, attributes] of                            *)
(* cluster_prototype_member_attribute.rq.tsv, the annotation the sequence  *)
(* of the entries [qnode_kb_id_identity, mention_id, generic_status] of    *)
(* the worksheet kb_links.  The dictionary `clusters` is the sequence of   *)
(* its entries [id, keys, projection, annotation] in insertion order:      *)
(* keys is the set of the keys the entry has, and the set of a key it has  *)
(* not is empty.                                                           *)
(***************************************************************************)
\* bound: the number of entries of the projection and of the worksheet
MaxLinks == 2

\* 'cluster-{}'.format(qnode_kb_id_identity)
ClusterOf(qnode) == <<"c", "l", "u", "s", "t", "e", "r", "-">> \o qnode

\* lines 739-741 and 766-768: a value of the projection goes to the set of
\* its cluster, which is created first when the cluster is new
AddProjection(clusters, cluster_id, value) ==
    IF \E i \in DOMAIN clusters : clusters[i].id = cluster_id
    THEN [i \in DOMAIN clusters |->
            IF clusters[i].id = cluster_id
            THEN [clusters[i] EXCEPT !.projection = @ \cup {value}]
            ELSE clusters[i]]
    ELSE Append(clusters, [id |-> cluster_id, keys |-> {"projection"},
                           projection |-> {value}, annotation |-> {}])

\* lines 747-751 and 773-777: a value of the annotation goes to the set of
\* its cluster; a new cluster has no 'projection' key
AddAnnotation(clusters, cluster_id, value) ==
    IF \E i \in DOMAIN clusters : clusters[i].id = cluster_id
    THEN [i \in DOMAIN clusters |->
            IF clusters[i].id = cluster_id
            THEN [clusters[i] EXCEPT !.keys = @ \cup {"annotation"},
                                     !.annotation = @ \cup {value}]
            ELSE clusters[i]]
    ELSE Append(clusters, [id |-> cluster_id, keys |-> {"annotation"},
                           projection |-> {}, annotation |-> {value}])

\* line 738
ProjectionStatus(attributes) ==
    IF \E i \in DOMAIN attributes : attributes[i] = "Generic"
    THEN "Generic" ELSE "NotGeneric"

\* line 746
AnnotationStatus(generic_status) ==
    IF generic_status = "generic" THEN "Generic" ELSE "NotGeneric"

\* the first two loops of a comparison; what is "member" or "status"
RECURSIVE ProjectionLoop(_, _, _, _)
ProjectionLoop(projection, what, i, clusters) ==
    IF i > Len(projection) THEN clusters
    ELSE ProjectionLoop(projection, what, i + 1,
            AddProjection(clusters, projection[i].cluster,
                IF what = "member" THEN projection[i].member
                ELSE ProjectionStatus(projection[i].attributes)))

RECURSIVE AnnotationLoop(_, _, _, _)
AnnotationLoop(kb_links, what, i, clusters) ==
    IF i > Len(kb_links) THEN clusters
    ELSE AnnotationLoop(kb_links, what, i + 1,
            AddAnnotation(clusters,
                ClusterOf(kb_links[i].qnode_kb_id_identity),
                IF what = "member" THEN kb_links[i].mention_id
                ELSE AnnotationStatus(kb_links[i].generic_status)))

\* clusters.get(cluster_id).get(key): None when the key is missing
GetSide(cluster, key) == IF key \in cluster.keys THEN cluster[key] ELSE NULL

\* list().append(x): the method appends to the new list and returns None
list_append(x) == NULL

\* the last loop from cluster i on; acc is [events, event_args, raised].
\* ','.join of a value that is no list of strings raises
RECURSIVE CompareLoop(_, _, _, _)
CompareLoop(clusters, code, i, acc) ==
    IF acc.raised \/ i > Len(clusters) THEN acc
    ELSE Let(<<list_append(GetSide(clusters[i], "projection")),
               list_append(GetSide(clusters[i], "annotation"))>>, LAMBDA m :
         IF m[1] # m[2]
         THEN [events |-> Append(acc.events, code),
               event_args |-> Append(acc.event_args, clusters[i].id),
               raised |-> m[1] = NULL \/ m[2] = NULL]
         ELSE CompareLoop(clusters, code, i + 1, acc))

Compared(clusters, code) ==
    Let(CompareLoop(clusters, code, 1,
            [events |-> <<>>, event_args |-> <<>>, raised |-> FALSE]),
        LAMBDA acc :
        [ret |-> IF acc.raised THEN "Raised" ELSE "Returned",
         entry |-> clusters, events |-> acc.events,
         event_args |-> acc.event_args])

\* AIFProjections.compare_cluster_members
compare_cluster_members(projection, kb_links) ==
    Compared(AnnotationLoop(kb_links, "member", 1,
                ProjectionLoop(projection, "member", 1, <<>>)),
             "UNEXPECTED_CLUSTER_MEMBERS")

\* AIFProjections.compare_cluster_generic_status
compare_cluster_generic_status(projection, kb_links) ==
    Compared(AnnotationLoop(kb_links, "status", 1,
                ProjectionLoop(projection, "status", 1, <<>>)),
             "UNEXPECTED_CLUSTER_GENERIC_STATUS")

\* the inputs drawn: clusters of the qnodes Q1 and Q2, mentions m1 and m2
Q1 == <<"Q", "1">>
Q2 == <<"Q", "2">>

InputProjections ==
    UNION {[1..n -> [cluster : {ClusterOf(Q1), ClusterOf(Q2)},
                     member : {"m1", "m2"},
                     attributes : {<<>>, <<"Generic">>}]] :
            n \in 0..MaxLinks}

InputKbLinks ==
    UNION {[1..n -> [qnode_kb_id_identity : {Q1, Q2},
                     mention_id : {"m1", "m2"},
                     generic_status : {"generic", "specific"}]] :
            n \in 0..MaxLinks}

CompareClusterMembers ==
    /\ method = "none"
    /\ \E p \in InputProjections, a \in InputKbLinks :
        Apply("compare_cluster_members",
              [projection |-> p, kb_links |-> a],
              compare_cluster_members(p, a))

CompareClusterGenericStatus ==
    /\ method = "none"
    /\ \E p \in InputProjections, a \in InputKbLinks :
        Apply("compare_cluster_generic_status",
              [projection |-> p, kb_links |-> a],
              compare_cluster_generic_status(p, a))

VerifyNext ==
    \/ CompareClusterMembers
    \/ CompareClusterGenericStatus
    \/ NextRecord

VerifySpec == Init /\ [][VerifyNext]_vars

(***************************************************************************)
(* Average precision.                                                      *)
(***************************************************************************)
\* the system types of the call, and the weight of each
ArgSystemTypes == {args.system[i].type : i \in DOMAIN args.system}

WeightOf(t) ==
    LET i == CHOOSE k \in DOMAIN args.system : args.system[k].type = t
    IN  Cardinality({args.system[i].entries[k] :
                        k \in DOMAIN args.system[i].entries})

\* u ranks before t: heavier, or as heavy with the smaller name
RanksBefore(u, t) ==
    \/ WeightOf(u) > WeightOf(t)
    \/ WeightOf(u) = WeightOf(t) /\ SeqLess(Codes(u), Codes(t))

RankOf(t) == 1 + Cardinality({u \in ArgSystemTypes : RanksBefore(u, t)})

\* the system types that are gold types
Hits == ArgSystemTypes \cap args.gold

\* precision at the rank of the hit t
PrecisionAt(t) ==
    Frac(Cardinality({u \in Hits : RankOf(u) <= RankOf(t)}), RankOf(t))

RECURSIVE SumPrecision(_)
SumPrecision(S) ==
    IF S = {} THEN Zero
    ELSE LET t == CHOOSE x \in S : TRUE
         IN  FracAdd(PrecisionAt(t), SumPrecision(S \ {t}))

\* C16: get_average_precision ranks the system types by weight (number of
\* distinct mention spans) descending, then type name ascending, adds
\* (hits so far)/rank at every rank whose type is a gold type, and returns
\* the sum divided by the number of gold types, or 0 when there is no gold
\* type; the result lies between 0 and 1.
C16_AveragePrecision ==
    method = "get_average_precision"
        => /\ ret = "Returned"
           /\ entry = IF args.gold = {} THEN Zero
                      ELSE FracDiv(SumPrecision(Hits), Cardinality(args.gold))
           /\ FracLeq(Zero, entry) /\ FracLeq(entry, Frac(1, 1))

\* a call where two system types tie in weight, one type has repeated
\* mention spans, and a hit follows a miss
C16_Witness ==
    /\ method = "get_average_precision"
    /\ \E t, u \in ArgSystemTypes : t # u /\ WeightOf(t) = WeightOf(u)
    /\ \E i \in DOMAIN args.system :
            Len(args.system[i].entries) > WeightOf(args.system[i].type)
    /\ \E t \in Hits : \E u \in ArgSystemTypes \ args.gold : RanksBefore(u, t)
    /\ entry # Zero /\ entry # Frac(1, 1)

\* the call of the example: gold types {A, B}; system types A with weight
\* 2, C with weight 1, B with weight 1
ExampleTypes ==
    /\ method = "get_average_precision"
    /\ args.gold = {TypeA, TypeB}
    /\ ArgSystemTypes = {TypeA, TypeB, TypeC}
    /\ WeightOf(TypeA) = 2 /\ WeightOf(TypeB) = 1 /\ WeightOf(TypeC) = 1

\* C17 as stated: for the example the average precision is (1/1 + 2/3)/2,
\* that is 5/6 = 0.8333.
C17_AsStated == ExampleTypes => entry = Frac(5, 6)

\* C17: for gold types {A, B} and system types A (weight 2), C (weight 1)
\* and B (weight 1), ties being broken by name, the ranking is A, B, C and
\* the average precision is (1/1 + 2/2)/2 = 1.
C17_ExampleAveragePrecision == ExampleTypes => entry = Frac(1, 1)

\* the example given in the order A, C, B
C17_Witness ==
    /\ ExampleTypes
    /\ [i \in DOMAIN args.system |-> args.system[i].type]
            = <<TypeA, TypeC, TypeB>>
    /\ ret = "Returned"

(***************************************************************************)
(* Aggregation.                                                            *)
(***************************************************************************)
\* the rows aggregate_scores has appended to the collection
Appended == SubSeq(entry, Len(args.scores) + 1, Len(entry))

\* every row handed to aggregate_scores has a concrete language and metatype
AllConcrete ==
    \A i \in DOMAIN args.scores :
        args.scores[i].language # ALL /\ args.scores[i].metatype # ALL

\* the raw row r belongs to the bucket (L, M)
InBucket(r, L, M) ==
    (L = ALL \/ r.language = L) /\ (M = ALL \/ r.metatype = M)

\* the buckets induced by the raw rows
Buckets ==
    {<<L, M>> \in
        ({args.scores[i].language : i \in DOMAIN args.scores} \cup {ALL})
        \X ({args.scores[i].metatype : i \in DOMAIN args.scores} \cup {ALL}) :
        \E i \in DOMAIN args.scores : InBucket(args.scores[i], L, M)}

\* C19: on a collection whose rows all have a concrete language and
\* metatype, aggregate_scores appends exactly one aggregate row for each of
\* the buckets (l,m), (l,ALL), (ALL,m), (ALL,ALL) induced by a raw row, and
\* the elements of the row (L,M) are exactly the raw rows of language L (or
\* any, for ALL) and metatype M (or any, for ALL), each once.
C19_Buckets ==
    (method = "aggregate_scores" /\ AllConcrete)
        => /\ SubSeq(entry, 1, Len(args.scores)) = args.scores
           /\ Len(Appended) = Cardinality(Buckets)
           /\ \A b \in Buckets : \E i \in DOMAIN Appended :
                /\ Appended[i].aggregate
                /\ <<Appended[i].language, Appended[i].metatype>> = b
                /\ {Appended[i].elements[k] : k \in DOMAIN Appended[i].elements}
                    = {args.scores[k] : k \in
                        {n \in DOMAIN args.scores :
                            InBucket(args.scores[n], b[1], b[2])}}
                /\ \A k, n \in DOMAIN Appended[i].elements :
                    k # n => Appended[i].elements[k] # Appended[i].elements[n]

\* the rows (en, Entity) and (en, Event) aggregated into six buckets
C19_Witness ==
    /\ method = "aggregate_scores"
    /\ Len(args.scores) = 2
    /\ args.scores[1].language = <<"e", "n">>
    /\ args.scores[2].language = <<"e", "n">>
    /\ args.scores[1].metatype = Entity
    /\ args.scores[2].metatype = Event
    /\ Len(Appended) = 6

\* C20: among the aggregate rows in the order aggregate_scores appends
\* them, no row whose language is ALL precedes a row of a concrete language,
\* within one language the ALL metatype row follows every concrete metatype
\* row, and the (ALL, ALL) row is last.
C20_AllSortsLast ==
    (method = "aggregate_scores" /\ AllConcrete)
        => \A i, j \in DOMAIN Appended :
            i < j =>
                /\ ~(Appended[i].language = ALL /\ Appended[j].language # ALL)
                /\ ~(/\ Appended[i].language = Appended[j].language
                     /\ Appended[i].metatype = ALL
                     /\ Appended[j].metatype # ALL)

(***************************************************************************)
(* Scoring with nothing to score.                                          *)
(***************************************************************************)
\* the call scored no unit: no core document, or no query
NoUnitScored ==
    \/ /\ method = "ArgumentMetricScorerV1.score_responses"
       /\ args.core_documents = <<>>
    \/ /\ method = "AcrossDocumentsCoreferenceMetricScorer.score_responses"
       /\ args.queries_to_score = <<>>

\* C18: when no unit is scored, score_responses of ArgumentMetricScorerV1
\* and of AcrossDocumentsCoreferenceMetricScorer completes, and the summary
\* row it appends last (mean F1, ALL-Macro) has value 0.
C18_EmptySummary ==
    NoUnitScored
        => /\ ret = "Returned"
           /\ Len(entry) >= 1
           /\ entry[Len(entry)].summary
           /\ IF method = "ArgumentMetricScorerV1.score_responses"
              THEN entry[Len(entry)].f1 = Zero
              ELSE /\ entry[Len(entry)].query_id = ALL_Macro
                   /\ entry[Len(entry)].average_precision = Zero

(***************************************************************************)
(* Scoring on anomalous data.                                              *)
(***************************************************************************)
TypeMetricCalls ==
    {"TypeMetricScorerV2.score_responses",
     "TypeMetricScorerV4.score_responses"}

\* C14: score_responses of the type metric scorers and of the argument
\* metric scorer completes and stores a score collection for every input,
\* also when an alignment entry names a cluster absent from the responses,
\* when a document has alignment entries but no clusters, and when a system
\* role filler has no entry in the alignment table.
C14_ScoringCompletes ==
    method \in TypeMetricCalls \cup {"ArgumentMetricScorerV1.score_responses"}
        => ret = "Returned" /\ entry # NoRecord

\* an entry of the alignment table of a scored document D1 that is aligned
\* with similarity 0 and belongs to a cluster of the responses
ZeroAligned(table, clusters) ==
    /\ \E i \in DOMAIN args.core_documents : args.core_documents[i] = D1
    /\ D1 \in DOMAIN table /\ D1 \in DOMAIN clusters
    /\ \E i \in DOMAIN table[D1] :
        /\ table[D1][i].id \in DOMAIN clusters[D1]
        /\ table[D1][i].aligned_to # None
        /\ table[D1][i].aligned_similarity = 0

\* a system role filler of a scored document aligned with similarity 0
ZeroAlignedFiller ==
    /\ \E i \in DOMAIN args.core_documents : args.core_documents[i] = D1
    /\ D1 \in DOMAIN args.system_frames /\ D1 \in DOMAIN args.system_to_gold
    /\ \E i \in DOMAIN args.system_frames[D1] :
        LET f == args.system_frames[D1][i].filler_cluster_id
        IN  /\ f \in DOMAIN args.system_to_gold[D1]
            /\ args.system_to_gold[D1][f].aligned_to # None
            /\ args.system_to_gold[D1][f].aligned_similarity = 0

\* C15: a scoring run that meets, for a cluster of a scored document, an
\* alignment entry (of gold_to_system or of system_to_gold) with aligned_to
\* different from 'None' and aligned_similarity 0 logs a
\* DEFAULT_CRITICAL_ERROR 'aligned_similarity=0' event, whatever the
\* metatype of the cluster.
C15_ZeroSimilarityLogged ==
    (/\ ret = "Returned"
     /\ \/ /\ method \in TypeMetricCalls
           /\ \/ ZeroAligned(args.gold_to_system, args.gold_clusters)
              \/ ZeroAligned(args.system_to_gold, args.system_clusters)
        \/ /\ method = "ArgumentMetricScorerV1.score_responses"
           /\ ZeroAlignedFiller)
        => Logged(SimilarityZero)

(***************************************************************************)
(* The life of a scorer.                                                   *)
(***************************************************************************)
\* what a step may do to the scorer i: nothing; constructed -> scoring, the
\* one call of score_responses; scoring -> scored, the scores being stored;
\* or, once scored, a change of the print separator only
ScorerStep(i) ==
    /\ scorers'[i].metric = scorers[i].metric
    /\ scorers'[i].kwargs = scorers[i].kwargs
    /\ \/ scorers'[i] = scorers[i]
       \/ /\ scorers[i].phase = "constructed" /\ scorers'[i].phase = "scoring"
          /\ scorers'[i].calls = scorers[i].calls + 1
          /\ scorers'[i].scores = scorers[i].scores
       \/ /\ scorers[i].phase = "scoring" /\ scorers'[i].phase = "scored"
          /\ scorers'[i].calls = scorers[i].calls
       \/ /\ scorers[i].phase = "scored" /\ scorers'[i].phase = "scored"
          /\ scorers'[i].calls = scorers[i].calls
          /\ scorers'[i].scores = scorers[i].scores

\* the scorers in every state: score_responses has been called once unless
\* the scorer is only constructed, with all constructor arguments stored;
\* scores are stored exactly when the scorer is scored; scorer i is the one
\* of the i-th metric of the task, and a constructed manager has one scored
\* scorer per metric
ScorerLife ==
    /\ \A i \in DOMAIN scorers :
        /\ scorers[i].phase \in {"constructed", "scoring", "scored"}
        /\ scorers[i].calls = IF scorers[i].phase = "constructed" THEN 0 ELSE 1
        /\ Len(scorers[i].scores) = IF scorers[i].phase = "scored" THEN 1 ELSE 0
        /\ scorers[i].kwargs = manager.arguments
        /\ i <= Len(manager.metrics)
        /\ scorers[i].metric = manager.metrics[i]
    /\ (manager # NoRecord /\ manager.pc \in {"constructed", "print_scores"})
        => /\ Len(scorers) = Len(manager.metrics)
           /\ \A i \in DOMAIN scorers : scorers[i].phase = "scored"
           /\ manager.scores = [i \in DOMAIN scorers |->
                                    [key |-> manager.metrics[i], value |-> i]]

\* C13: every scorer goes constructed -> scoring -> scored and stays scored:
\* score_responses is called once per scorer, in its constructor after the
\* arguments are stored; no later step of Scorer or ScoresManager,
\* print_scores included, calls it again or changes the stored scores; and
\* ScoresManager constructs one scorer per metric registered for its task.
C13_ScoredOnce ==
    /\ []ScorerLife
    /\ [][/\ Len(scorers') >= Len(scorers)
          /\ \A i \in DOMAIN scorers : ScorerStep(i)
          /\ \A i \in DOMAIN scorers' \ DOMAIN scorers :
                /\ scorers'[i].phase = "constructed"
                /\ scorers'[i].calls = 0]_vars

\* the manager of task1 after a print_scores: twelve scorers, each scored
\* by one call, their collections printed with both separators
C13_Witness ==
    /\ manager # NoRecord
    /\ manager.task = "task1" /\ manager.pc = "constructed"
    /\ manager.printed >= 1
    /\ Len(scorers) = 12
    /\ \A i \in DOMAIN scorers :
        /\ scorers[i].phase = "scored" /\ scorers[i].calls = 1
        /\ scorers[i].separator = "tab"

(***************************************************************************)
(* The exit status of validate_responses.py.                               *)
(***************************************************************************)
Running == process # NoRecord /\ process.pc # "exited"

Exited == process # NoRecord /\ process.pc = "exited"

\* the run got to the end of validate_responses
Finished ==
    /\ Exited
    /\ process.printed # <<>>
    /\ process.printed[1] = "validation finished"

\* C21: a run that gets through the validation exits with status 0 if and
\* only if the logger has counted no error, and with 255 otherwise, the
\* warnings having no part in it; no other run exits with status 0; and
\* the status is decided only after the valid responses are written.
C21_ExitStatus ==
    /\ [](Finished =>
            /\ process.written /\ "output" \in process.exists
            /\ process.printed[3] = CountOf(process.logger.events, "ERROR")
            /\ process.status = IF process.printed[3] = 0
                                THEN ALLOK_EXIT_CODE ELSE ERROR_EXIT_CODE)
    /\ []((Exited /\ process.status = ALLOK_EXIT_CODE) => Finished)
    /\ [][(Running /\ process.pc = "get_stats")' => Running]_vars
    /\ [][(Running /\ process.pc = "get_stats" /\ ~Running')
            => (process.written /\ Finished')]_vars

\* a run that recorded warnings and no error has exited with status 0
C21_Witness ==
    /\ Finished
    /\ process.printed[2] > 0 /\ process.printed[3] = 0
    /\ process.status = ALLOK_EXIT_CODE
    /\ process.written

(***************************************************************************)
(* The path checks of validate_responses.py.                               *)
(***************************************************************************)
\* the input paths the script requires: the eight corpus files and the
\* directory of the responses
RequiredInputPaths ==
    {"log_specifications", "encodings", "core_documents", "parent_children",
     "sentence_boundaries", "image_boundaries", "keyframe_boundaries",
     "video_boundaries", "input"}

\* a required path is missing or the output path exists when the run starts
PathCheckFails ==
    \/ \E p \in RequiredInputPaths : p \notin process.started_with
    \/ "output" \in process.started_with

\* C22: in a run started with a required input path missing or with the
\* output path present the logger is never created, nothing is loaded or
\* validated, nothing is written, and the run is in the path checks or has
\* exited with status 255; the logger exists only in runs whose every path
\* check passed.
C22_PathChecksFirst ==
    process # NoRecord =>
        /\ PathCheckFails =>
            /\ process.logger = NoRecord
            /\ process.loaded = {}
            /\ ~process.written /\ process.exists = process.started_with
            /\ process.pc \in {"check_for_paths_existance",
                               "check_for_paths_non_existance", "exited"}
            /\ process.pc = "exited" => process.status = ERROR_EXIT_CODE
        /\ process.pc \notin {"check_for_paths_existance",
                              "check_for_paths_non_existance", "exited"}
            => ~PathCheckFails

\* a run started with every input path and the output path present has
\* exited with status 255 and without a logger
C22_Witness ==
    /\ Exited
    /\ process.started_with = RequiredInputPaths \cup {"output"}
    /\ process.status = ERROR_EXIT_CODE
    /\ process.logger = NoRecord
    /\ process.printed = <<"exists", "output">>

(***************************************************************************)
(* The order of the two ends of a date range.                              *)
(***************************************************************************)
RangeBefore == args.entry.before[1]

RangeAfter == args.entry.after[1]

\* both ends have the field f
BothGiven(f) == Given(RangeBefore[f]) /\ Given(RangeAfter[f])

\* the 'before' date precedes the 'after' date: in the year, or with equal
\* years in the month, or with equal years and months in the day, a field
\* being compared only when both ends have it
Precedes ==
    \/ BothGiven("year") /\ RangeBefore.year[1] < RangeAfter.year[1]
    \/ /\ RangeBefore.year = RangeAfter.year
       /\ BothGiven("month") /\ RangeBefore.month[1] < RangeAfter.month[1]
    \/ /\ RangeBefore.year = RangeAfter.year
       /\ RangeBefore.month = RangeAfter.month
       /\ BothGiven("month")
       /\ BothGiven("day") /\ RangeBefore.day[1] < RangeAfter.day[1]

\* C23: validate_before_and_after_dates, reached through validate_date_range
\* or validate_date_start_and_end with both ends present, returns false
\* with INVALID_DATE_RANGE exactly when the 'before' date precedes the
\* 'after' date, and in every other case returns true and logs nothing.
C23_DateOrder ==
    (/\ method \in {"validate_date_range", "validate_date_start_and_end"}
     /\ RangeGiven)
        => IF Precedes
           THEN ret = "False" /\ events = <<"INVALID_DATE_RANGE">>
           ELSE ret = "True" /\ events = <<>>

(***************************************************************************)
(* The aligned_similarity numbers and the scores.                          *)
(***************************************************************************)
\* the aligned_similarity numbers of a second run: entry i of a table gets
\* the number f[i]
InputSimilarities == [1..2 -> {0, 1}]

\* an alignment table with the aligned_similarity of its entries replaced
WithSimilarities(table, f) ==
    [d \in DOMAIN table |->
        [i \in DOMAIN table[d] |->
            [table[d][i] EXCEPT !.aligned_similarity = f[i]]]]

\* the run of the same scorer on the input `in`
SecondRun(in) ==
    IF method = "TypeMetricScorerV4.score_responses"
    THEN TypeMetricV4_score_responses(in)
    ELSE TypeMetricV2_score_responses(in)

\* C24: a second run of TypeMetricScorerV4 or TypeMetricScorerV2 on an
\* input that differs from the first only in the aligned_similarity numbers
\* of the cluster alignment ends the same way and stores the same sequence
\* of score rows with the same values.
C24_SimilarityIgnored ==
    method \in TypeMetricCalls =>
        \A fg \in InputSimilarities, fs \in InputSimilarities :
            LET o == SecondRun([args EXCEPT
                        !.gold_to_system = WithSimilarities(@, fg),
                        !.system_to_gold = WithSimilarities(@, fs)])
            IN  o.ret = ret /\ o.entry = entry

\* a run of TypeMetricScorerV2 that scored an aligned pair whose
\* aligned_similarity is 0: the event is logged and the row has its average
\* precision
C24_Witness ==
    /\ method = "TypeMetricScorerV2.score_responses"
    /\ ret = "Returned"
    /\ D1 \in DOMAIN args.gold_to_system
    /\ args.gold_to_system[D1][1].aligned_to = S1
    /\ args.gold_to_system[D1][1].aligned_similarity = 0
    /\ Logged(SimilarityZero)
    /\ \E i \in DOMAIN entry :
        /\ "value" \in DOMAIN entry[i]
        /\ entry[i].gold_cluster_id = G1 /\ entry[i].system_cluster_id = S1
        /\ entry[i].value # Zero

(***************************************************************************)
(* The keys of the argument metric.                                        *)
(***************************************************************************)
\* the arguments (role, filler, predicate) of the frames of a document on
\* one side
Arguments(frames, document_id) ==
    IF document_id \in DOMAIN frames THEN Range(frames[document_id]) ELSE {}

\* the type_role of an argument
TypeRole(j) ==
    type_invoked(args.type_to_codes, j.predicate, j.role_name)
        \o <<"_">> \o j.role_name

\* the cluster a system filler is aligned to
AlignedTo(document_id, j) ==
    args.system_to_gold[document_id][j.filler_cluster_id].aligned_to

\* the system arguments of a document that count as correct: the type_role
\* is that of a gold argument whose filler the system filler is aligned to
CorrectArguments(document_id) ==
    {j \in Arguments(args.system_frames, document_id) :
        \E g \in Arguments(args.gold_frames, document_id) :
            /\ TypeRole(g) = TypeRole(j)
            /\ AlignedTo(document_id, j) = g.filler_cluster_id}

\* the keys as pairs: system keys carry the gold cluster the filler is
\* aligned to, or the filler's own ID when it is aligned to 'None'
SystemKeys(document_id) ==
    {<<TypeRole(j), IF AlignedTo(document_id, j) = None
                    THEN j.filler_cluster_id
                    ELSE AlignedTo(document_id, j)>> :
        j \in Arguments(args.system_frames, document_id)}

\* gold keys carry the gold filler
GoldKeys(document_id) ==
    {<<TypeRole(g), g.filler_cluster_id>> :
        g \in Arguments(args.gold_frames, document_id)}

\* the keys of the correct system arguments
CorrectKeys(document_id) ==
    {<<TypeRole(j), AlignedTo(document_id, j)>> :
        j \in CorrectArguments(document_id)}

Ratio(n, d) == IF d = 0 THEN Zero ELSE Frac(n, d)

RawRows == {i \in DOMAIN entry : "document_id" \in DOMAIN entry[i]}

\* the core documents the corpus knows
KnownDocuments ==
    {d \in Range(args.core_documents) : d \in DOMAIN args.documents}

\* the raw rows of document d for the gold cluster g and system cluster c
RowsOf(d, g, c) ==
    {i \in RawRows : /\ entry[i].document_id = d
                     /\ entry[i].gold_cluster_id = g
                     /\ entry[i].system_cluster_id = c}

\* the cluster has a record in the responses of its side, with metatype m
HasMetatype(clusters, d, id, M) ==
    /\ d \in DOMAIN clusters /\ id \in DOMAIN clusters[d]
    /\ clusters[d][id].metatype \in M

\* the similarity tabled for the pair, 0 when it is not tabled
Tabled(d, c, g) ==
    IF d \in DOMAIN args.type_similarities
       /\ <<c, g>> \in DOMAIN args.type_similarities[d]
    THEN args.type_similarities[d][<<c, g>>] ELSE Zero

VisitOrders(s) ==
    {t \in [DOMAIN s -> Range(s)] : \A x \in Range(s) : \E i \in DOMAIN t :
        t[i] = x}

\* an alignment table with the entries of every document in another order
PermutedTables(table) ==
    {t \in [DOMAIN table ->
                UNION {VisitOrders(table[d]) : d \in DOMAIN table}] :
        \A d \in DOMAIN table : t[d] \in VisitOrders(table[d])}

\* the sort key of a raw row
RawKey(r) ==
    << Codes(r.document_id), Codes(r.metatype), Codes(r.gold_cluster_id),
       Codes(r.system_cluster_id) >>

\* C27: TypeMetricScorerV4.score_responses stores the raw rows in
\* non-decreasing order of (document_id, metatype, gold_cluster_id,
\* system_cluster_id), followed by the aggregate rows in the order of
\* their language:metatype key, and a run that visits the core documents
\* and the entries of the alignment tables in any other order ends the same
\* way with the same sequence of rows.
C27_OrderIndependent ==
    method = "TypeMetricScorerV4.score_responses" =>
        /\ ret = "Returned" =>
            /\ \A i \in RawRows, j \in DOMAIN entry :
                /\ j \notin RawRows => i < j
                /\ (j \in RawRows /\ i < j)
                        => ~KeyLess(RawKey(entry[j]), RawKey(entry[i]))
            /\ \A i, j \in DOMAIN entry \ RawRows :
                i < j => ~SeqLess(Codes(order(entry[j])),
                                  Codes(order(entry[i])))
        /\ \A c \in VisitOrders(args.core_documents),
              g \in PermutedTables(args.gold_to_system),
              t \in PermutedTables(args.system_to_gold) :
            LET o == TypeMetricV4_score_responses(
                        [args EXCEPT !.core_documents = c,
                                     !.gold_to_system = g,
                                     !.system_to_gold = t])
            IN  o.ret = ret /\ o.entry = entry

\* a run that visited D9 before D1 and, on D1, the cluster G2 before G1 and
\* S2 before S1, and stored rows of both documents: the first row is the
\* one of D1 and G1
C27_Witness ==
    /\ method = "TypeMetricScorerV4.score_responses"
    /\ ret = "Returned"
    /\ args.core_documents = <<D9, D1>>
    /\ args.gold_to_system[D1][1].id = G2
    /\ HasMetatype(args.gold_clusters, D1, G1, {Entity})
    /\ HasMetatype(args.gold_clusters, D1, G2, {Entity})
    /\ Cardinality(RawRows) >= 4
    /\ entry[1].document_id = D1 /\ entry[1].gold_cluster_id = G1
    /\ \E i \in RawRows : entry[i].document_id = D9

(***************************************************************************)
(* What aggregate_scores changes.                                          *)
(***************************************************************************)
\* the step is the call of aggregate_scores
AggregateStep == method = "scores_printer.add" /\ method' = "aggregate_scores"

\* C28: the call of aggregate_scores leaves every row of the collection in
\* its place with its values, appends behind them only rows that are new
\* aggregates with the aggregate and summary flags set, and changes nothing
\* else: not the collections and arguments of the scorers, the manager or
\* the responses.
C28_AppendOnly ==
    [][AggregateStep =>
        /\ Len(entry') >= Len(entry)
        /\ SubSeq(entry', 1, Len(entry)) = entry
        /\ \A i \in (Len(entry) + 1)..Len(entry') :
            /\ "aggregate" \in DOMAIN entry'[i]
            /\ entry'[i].aggregate /\ entry'[i].summary
            /\ \A j \in DOMAIN entry : entry'[i] # entry[j]
        /\ (entry # <<>>) => Len(entry') > Len(entry)
        /\ scorers' = scorers /\ manager' = manager
        /\ args' = args /\ process' = process]_vars

\* three rows aggregated into a collection of more rows while the earlier
\* scorer holds a collection of its own
C28_Witness ==
    /\ method = "aggregate_scores"
    /\ Len(args.scores) = MaxRows
    /\ Len(entry) > MaxRows
    /\ SubSeq(entry, 1, MaxRows) = args.scores
    /\ scorers # <<>> /\ scorers[1].scores # << <<>> >>
    /\ scorers[2].phase = "scored" /\ scorers[2].scores = <<entry>>

(***************************************************************************)
(* The rows of AcrossDocumentsCoreferenceMetricScorer.                     *)
(***************************************************************************)
\* the queries scored, and those of an entity
Queries == Range(args.queries_to_score)

QueriesOf(e) == {q \in Queries : get_entity_id(q) = e}

Entities == {get_entity_id(q) : q \in Queries}

RECURSIVE SumOfScores(_)
SumOfScores(Q) ==
    IF Q = {} THEN Zero
    ELSE LET q == CHOOSE x \in Q : TRUE
         IN  FracAdd(get_score(q), SumOfScores(Q \ {q}))

\* the mean average precision of a set of queries
MeanOfScores(Q) == FracDiv(SumOfScores(Q), Cardinality(Q))

RECURSIVE SumOfMeans(_)
SumOfMeans(E) ==
    IF E = {} THEN Zero
    ELSE LET e == CHOOSE x \in E : TRUE
         IN  FracAdd(MeanOfScores(QueriesOf(e)), SumOfMeans(E \ {e}))

\* the rows stored for the query ID q and the entity ID e
ScoreRows(q, e) ==
    {i \in DOMAIN entry : entry[i].query_id = q /\ entry[i].entity_id = e}

\* C29: for a non-empty queries_to_score the collection stored holds one
\* raw row per query, one summary row (entity, ALL-Micro) per entity with
\* the mean of the scores of the entity's queries, one summary row
\* (Summary, ALL-Micro) with the mean over all queries, and last the
\* summary row (Summary, ALL-Macro) with the mean of the entities' means;
\* it holds no other row, so no summary row of a concrete query ID.
C29_AcrossDocumentsRows ==
    (/\ method = "AcrossDocumentsCoreferenceMetricScorer.score_responses"
     /\ args.queries_to_score # <<>>)
    => /\ ret = "Returned"
       /\ Len(entry) = Cardinality(Queries) + Cardinality(Entities) + 2
       /\ \A q \in Queries :
            /\ Cardinality(ScoreRows(q, get_entity_id(q))) = 1
            /\ \A i \in ScoreRows(q, get_entity_id(q)) :
                /\ ~entry[i].summary
                /\ entry[i].average_precision = get_score(q)
       /\ \A e \in Entities :
            /\ Cardinality(ScoreRows(ALL_Micro, e)) = 1
            /\ \A i \in ScoreRows(ALL_Micro, e) :
                /\ entry[i].summary
                /\ entry[i].average_precision = MeanOfScores(QueriesOf(e))
       /\ Cardinality(ScoreRows(ALL_Micro, Summary)) = 1
       /\ \A i \in ScoreRows(ALL_Micro, Summary) :
            /\ entry[i].summary
            /\ entry[i].average_precision = MeanOfScores(Queries)
       /\ ScoreRows(ALL_Macro, Summary) = {Len(entry)}
       /\ entry[Len(entry)].summary
       /\ entry[Len(entry)].average_precision =
            FracDiv(SumOfMeans(Entities), Cardinality(Entities))
       /\ \A i \in DOMAIN entry :
            entry[i].summary => entry[i].query_id \in {ALL_Micro, ALL_Macro}

\* three queries of two entities scored: seven rows, the macro average
\* differing from the micro average
C29_Witness ==
    /\ method = "AcrossDocumentsCoreferenceMetricScorer.score_responses"
    /\ ret = "Returned"
    /\ Cardinality(Queries) = 3 /\ Cardinality(Entities) = 2
    /\ Len(entry) = 7
    /\ entry[7].query_id = ALL_Macro /\ entry[7].entity_id = Summary
    /\ \E i \in ScoreRows(ALL_Micro, Summary) :
        entry[i].average_precision # entry[7].average_precision

(***************************************************************************)
(* The clusters whose two sides differ.                                    *)
(***************************************************************************)
\* the values of the cluster id on the side of the projection and on the
\* side of the annotation: its members, or its generic statuses
ProjectionSide(id) ==
    {IF method = "compare_cluster_members" THEN e.member
     ELSE ProjectionStatus(e.attributes) :
        e \in {x \in Range(args.projection) : x.cluster = id}}

AnnotationSide(id) ==
    {IF method = "compare_cluster_members" THEN e.mention_id
     ELSE AnnotationStatus(e.generic_status) :
        e \in {x \in Range(args.kb_links) :
                    ClusterOf(x.qnode_kb_id_identity) = id}}

ComparedClusters ==
    {e.cluster : e \in Range(args.projection)}
        \cup {ClusterOf(e.qnode_kb_id_identity) : e \in Range(args.kb_links)}

\* C30: compare_cluster_members records UNEXPECTED_CLUSTER_MEMBERS, and
\* compare_cluster_generic_status UNEXPECTED_CLUSTER_GENERIC_STATUS, for
\* every cluster whose set of members, or of generic statuses, in the
\* projection differs from the one in the annotation, a cluster of one side
\* only being one that differs.
C30_DifferencesReported ==
    method \in {"compare_cluster_members", "compare_cluster_generic_status"}
    => \A id \in ComparedClusters :
        ProjectionSide(id) # AnnotationSide(id)
            => /\ Logged(IF method = "compare_cluster_members"
                         THEN "UNEXPECTED_CLUSTER_MEMBERS"
                         ELSE "UNEXPECTED_CLUSTER_GENERIC_STATUS")
               /\ id \in Range(event_args)

====
